---- MODULE Spec2Model ----
(***************************************************************************)
(* Event trigger registry of oprc-py (src/oprc-py/src/model.rs).           *)
(*                                                                         *)
(* PyObjectEvent wraps an oprc_pb::ObjectEvent, i.e. two maps              *)
(*   func_trigger : source function id -> FuncTrigger{on_complete,on_error}*)
(*   data_trigger : source field key   -> DataTrigger{on_create,on_update, *)
(*                                                    on_delete}           *)
(* and offers ten methods, add_* / delete_* for each of the five lists.    *)
(* Every method is modelled as an operator computing the value the method  *)
(* returns and the map it leaves behind, and as an action applying it.     *)
(***************************************************************************)
EXTENDS Integers, Sequences, FiniteSets, TLC

VARIABLES func_trigger, data_trigger, calls, budget, gw, gil, rpc, codec, telemetry

vars == <<func_trigger, data_trigger, calls, budget, gw, gil, rpc, codec, telemetry>>

(***************************************************************************)
(* Bounds of the model and the argument values the methods are called with *)
(***************************************************************************)
\* calls made on a registry built with PyObjectEvent::new
MaxOps == 3

\* calls made on such a registry by the longer runs of LongSpec
MaxLongOps == 4

\* calls made on a registry wrapped from a wire ObjectEvent
MaxWireOps == 2

\* length of a trigger list of a wire ObjectEvent
MaxWireLen == 2

\* calls remembered in `calls`
HistLen == 4

\* invocation requests the gateway has in flight at once
NumRequests == 2

\* outbound calls made through the RpcManager
NumCalls == 2

\* interpreter threads that call into the telemetry functions
NumThreads == 2

\* calls of init_telemetry or forward_log each thread makes
MaxThreadCalls == 2

SourceFnIds == {"f", "g"}

SourceKeys == {5, 6}

\* Option<u64>: None is the empty sequence, Some(v) is <<v>>
None == << >>

Some(v) == <<v>>

\* (target_cls_id, target_partition_id, target_fn_id, target_object_id)
TargetArgs ==
    { <<"Order", 0, "notify", None>>,
      <<"Order", 0, "notify", Some(1)>>,
      <<"Cart", 1, "audit", None>> }

\* HashMap<String, String>::default()
EmptyOptions == [k \in {} |-> ""]

FnEvents == {"on_complete", "on_error"}

DataEvents == {"on_create", "on_update", "on_delete"}

(***************************************************************************)
(* Vec<TriggerTarget> primitives used by the methods                       *)
(***************************************************************************)
\* Vec::contains: some element is structurally equal to t
Contains_last_only(l, t) == l # << >> /\ l[Len(l)] = t

Contains_first_only(l, t) == l # << >> /\ l[1] = t

Contains_four_fields(l, t) ==
    \E i \in 1..Len(l) :
        /\ l[i].cls_id = t.cls_id /\ l[i].partition_id = t.partition_id
        /\ l[i].fn_id = t.fn_id /\ l[i].object_id = t.object_id

Contains(l, t) == \E i \in 1..Len(l) : l[i] = t

\* Iterator::position: index of the first element equal to t, 0 for None
Position_never(l, t) == 0

Position_past_end(l, t) ==
    LET hits == {i \in 1..Len(l) : l[i] = t}
    IN  IF hits = {} THEN 0 ELSE 1 + CHOOSE i \in hits : \A j \in hits : i <= j

Position(l, t) ==
    LET hits == {i \in 1..Len(l) : l[i] = t}
    IN  IF hits = {} THEN 0 ELSE CHOOSE i \in hits : \A j \in hits : i <= j

\* Vec::remove(index): drops the element at index, shifting the rest left
Remove_truncate(l, index) == SubSeq(l, 1, index - 1)

Remove_swap(l, index) ==
    IF index = Len(l)
    THEN SubSeq(l, 1, index - 1)
    ELSE SubSeq(l, 1, index - 1) \o <<l[Len(l)]>> \o SubSeq(l, index + 1, Len(l) - 1)

Remove(l, index) == SubSeq(l, 1, index - 1) \o SubSeq(l, index + 1, Len(l))

\* Vec::remove panics when index is not below the length (0-based), i.e.
\* when the 1-based index used here lies outside 1..Len(l)
RemovePanics(l, index) == index < 1 \/ index > Len(l)

\* Vec::push
Push_front(l, t) == <<t>> \o l

Push(l, t) == Append(l, t)

\* HashMap::insert of a key
Insert_alone(m, k, v) == [x \in {k} |-> v]

Insert(m, k, v) == [x \in (DOMAIN m) \cup {k} |-> IF x = k THEN v ELSE m[x]]

\* the TriggerTarget every method builds from its arguments:
\* the four given fields, req_options from Default::default()
Trigger(target_cls_id, target_partition_id, target_fn_id, target_object_id) ==
    [cls_id |-> target_cls_id,
     partition_id |-> target_partition_id,
     fn_id |-> target_fn_id,
     object_id |-> target_object_id,
     req_options |-> EmptyOptions]

\* what a method hands back: its boolean and the map it worked on
Outcome(r, m) == [ret |-> r, map |-> m, panicked |-> FALSE]

\* a method that unwinds instead of returning
Panic(m) == [ret |-> FALSE, map |-> m, panicked |-> TRUE]

(***************************************************************************)
(* The ten methods of PyObjectEvent.  `inner` is the map the method works  *)
(* on: self.inner.func_trigger for the *_fn_event methods,                 *)
(* self.inner.data_trigger for the *_data_event methods.                   *)
(***************************************************************************)
\* model.rs 411-441
add_on_complete_fn_event(inner, source_fn_id, target_cls_id, target_partition_id, target_fn_id, target_object_id) ==
    LET trigger == Trigger(target_cls_id, target_partition_id,
                           target_fn_id, target_object_id)
    IN  IF source_fn_id \in DOMAIN inner
        THEN LET l == inner[source_fn_id]
             IN  IF Contains(l.on_complete, trigger)
                 THEN Outcome(FALSE, inner)
                 ELSE Outcome(TRUE,
                              [inner EXCEPT ![source_fn_id].on_complete = Push(@, trigger)])
        ELSE Outcome(TRUE,
                     Insert(inner, source_fn_id,
                           [on_complete |-> <<trigger>>,
                            on_error |-> << >>]))

\* model.rs 445-471
delete_on_complete_fn_event(inner, source_fn_id, target_cls_id, target_partition_id, target_fn_id, target_object_id) ==
    LET trigger == Trigger(target_cls_id, target_partition_id,
                           target_fn_id, target_object_id)
    IN  IF source_fn_id \in DOMAIN inner
        THEN LET l == inner[source_fn_id]
                 index == Position(l.on_complete, trigger)
             IN  IF index # 0
                 THEN IF RemovePanics(l.on_complete, index)
                      THEN Panic(inner)
                      ELSE Outcome(TRUE,
                                   [inner EXCEPT ![source_fn_id].on_complete = Remove(@, index)])
                 ELSE Outcome(FALSE, inner)
        ELSE Outcome(FALSE, inner)

add_on_error_fn_event_always_true(inner, source_fn_id, target_cls_id, target_partition_id, target_fn_id, target_object_id) ==
    LET trigger == Trigger(target_cls_id, target_partition_id,
                           target_fn_id, target_object_id)
    IN  IF source_fn_id \in DOMAIN inner
        THEN LET l == inner[source_fn_id]
             IN  IF Contains(l.on_error, trigger)
                 THEN Outcome(TRUE, inner)
                 ELSE Outcome(TRUE,
                              [inner EXCEPT ![source_fn_id].on_error = Push(@, trigger)])
        ELSE Outcome(TRUE,
                     Insert(inner, source_fn_id,
                           [on_complete |-> << >>,
                            on_error |-> <<trigger>>]))

\* model.rs 475-506
add_on_error_fn_event(inner, source_fn_id, target_cls_id, target_partition_id, target_fn_id, target_object_id) ==
    LET trigger == Trigger(target_cls_id, target_partition_id,
                           target_fn_id, target_object_id)
    IN  IF source_fn_id \in DOMAIN inner
        THEN LET l == inner[source_fn_id]
             IN  IF Contains(l.on_error, trigger)
                 THEN Outcome(FALSE, inner)
                 ELSE Outcome(TRUE,
                              [inner EXCEPT ![source_fn_id].on_error = Push(@, trigger)])
        ELSE Outcome(TRUE,
                     Insert(inner, source_fn_id,
                           [on_complete |-> << >>,
                            on_error |-> <<trigger>>]))

\* model.rs 510-534
delete_on_error_fn_event(inner, source_fn_id, target_cls_id, target_partition_id, target_fn_id, target_object_id) ==
    LET trigger == Trigger(target_cls_id, target_partition_id,
                           target_fn_id, target_object_id)
    IN  IF source_fn_id \in DOMAIN inner
        THEN LET l == inner[source_fn_id]
                 index == Position(l.on_error, trigger)
             IN  IF index # 0
                 THEN IF RemovePanics(l.on_error, index)
                      THEN Panic(inner)
                      ELSE Outcome(TRUE,
                                   [inner EXCEPT ![source_fn_id].on_error = Remove(@, index)])
                 ELSE Outcome(FALSE, inner)
        ELSE Outcome(FALSE, inner)

\* model.rs 538-570
add_on_create_data_event(inner, source_key, target_cls_id, target_partition_id, target_fn_id, target_object_id) ==
    LET trigger == Trigger(target_cls_id, target_partition_id,
                           target_fn_id, target_object_id)
    IN  IF source_key \in DOMAIN inner
        THEN LET l == inner[source_key]
             IN  IF Contains(l.on_create, trigger)
                 THEN Outcome(FALSE, inner)
                 ELSE Outcome(TRUE,
                              [inner EXCEPT ![source_key].on_create = Push(@, trigger)])
        ELSE Outcome(TRUE,
                     Insert(inner, source_key,
                           [on_create |-> <<trigger>>,
                            on_update |-> << >>,
                            on_delete |-> << >>]))

delete_on_create_data_event_pruning(inner, source_key, target_cls_id, target_partition_id, target_fn_id, target_object_id) ==
    LET trigger == Trigger(target_cls_id, target_partition_id,
                           target_fn_id, target_object_id)
    IN  IF source_key \in DOMAIN inner
        THEN LET l == inner[source_key]
                 index == Position(l.on_create, trigger)
                 rest == Remove(l.on_create, index)
             IN  IF index # 0
                 THEN IF rest = << >> /\ l.on_update = << >> /\ l.on_delete = << >>
                      THEN Outcome(TRUE,
                                   [k \in (DOMAIN inner) \ {source_key} |-> inner[k]])
                      ELSE Outcome(TRUE,
                                   [inner EXCEPT ![source_key].on_create = rest])
                 ELSE Outcome(FALSE, inner)
        ELSE Outcome(FALSE, inner)

\* model.rs 574-598
delete_on_create_data_event(inner, source_key, target_cls_id, target_partition_id, target_fn_id, target_object_id) ==
    LET trigger == Trigger(target_cls_id, target_partition_id,
                           target_fn_id, target_object_id)
    IN  IF source_key \in DOMAIN inner
        THEN LET l == inner[source_key]
                 index == Position(l.on_create, trigger)
             IN  IF index # 0
                 THEN IF RemovePanics(l.on_create, index)
                      THEN Panic(inner)
                      ELSE Outcome(TRUE,
                                   [inner EXCEPT ![source_key].on_create = Remove(@, index)])
                 ELSE Outcome(FALSE, inner)
        ELSE Outcome(FALSE, inner)

\* model.rs 602-634
add_on_update_data_event(inner, source_key, target_cls_id, target_partition_id, target_fn_id, target_object_id) ==
    LET trigger == Trigger(target_cls_id, target_partition_id,
                           target_fn_id, target_object_id)
    IN  IF source_key \in DOMAIN inner
        THEN LET l == inner[source_key]
             IN  IF Contains(l.on_update, trigger)
                 THEN Outcome(FALSE, inner)
                 ELSE Outcome(TRUE,
                              [inner EXCEPT ![source_key].on_update = Push(@, trigger)])
        ELSE Outcome(TRUE,
                     Insert(inner, source_key,
                           [on_create |-> << >>,
                            on_update |-> <<trigger>>,
                            on_delete |-> << >>]))

\* model.rs 638-662
delete_on_update_data_event(inner, source_key, target_cls_id, target_partition_id, target_fn_id, target_object_id) ==
    LET trigger == Trigger(target_cls_id, target_partition_id,
                           target_fn_id, target_object_id)
    IN  IF source_key \in DOMAIN inner
        THEN LET l == inner[source_key]
                 index == Position(l.on_update, trigger)
             IN  IF index # 0
                 THEN IF RemovePanics(l.on_update, index)
                      THEN Panic(inner)
                      ELSE Outcome(TRUE,
                                   [inner EXCEPT ![source_key].on_update = Remove(@, index)])
                 ELSE Outcome(FALSE, inner)
        ELSE Outcome(FALSE, inner)

\* model.rs 666-698
add_on_delete_data_event(inner, source_key, target_cls_id, target_partition_id, target_fn_id, target_object_id) ==
    LET trigger == Trigger(target_cls_id, target_partition_id,
                           target_fn_id, target_object_id)
    IN  IF source_key \in DOMAIN inner
        THEN LET l == inner[source_key]
             IN  IF Contains(l.on_delete, trigger)
                 THEN Outcome(FALSE, inner)
                 ELSE Outcome(TRUE,
                              [inner EXCEPT ![source_key].on_delete = Push(@, trigger)])
        ELSE Outcome(TRUE,
                     Insert(inner, source_key,
                           [on_create |-> << >>,
                            on_update |-> << >>,
                            on_delete |-> <<trigger>>]))

\* model.rs 702-726
delete_on_delete_data_event(inner, source_key, target_cls_id, target_partition_id, target_fn_id, target_object_id) ==
    LET trigger == Trigger(target_cls_id, target_partition_id,
                           target_fn_id, target_object_id)
    IN  IF source_key \in DOMAIN inner
        THEN LET l == inner[source_key]
                 index == Position(l.on_delete, trigger)
             IN  IF index # 0
                 THEN IF RemovePanics(l.on_delete, index)
                      THEN Panic(inner)
                      ELSE Outcome(TRUE,
                                   [inner EXCEPT ![source_key].on_delete = Remove(@, index)])
                 ELSE Outcome(FALSE, inner)
        ELSE Outcome(FALSE, inner)

(***************************************************************************)
(* The other parts of the crate, each studied under a specification of its *)
(* own and at rest under the others:                                       *)
(*   gw    the invocation gateway (handler.rs): per request its position   *)
(*         in the handler and what it has received and produced so far     *)
(*   gil   the interpreter lock: 0 when free, else the holder              *)
(*   rpc   the outbound calls of the RpcManager (rpc.rs)                   *)
(*   codec an ObjectData value, its wire form and the value decoded back   *)
(***************************************************************************)
Requests == 1..NumRequests

RpcCalls == 1..NumCalls

\* a request slot no request has arrived on
IdleRequest ==
    [pc |-> "idle", kind |-> None, req |-> None, entry |-> None, call |-> None,
     engine_req |-> None, result |-> None, out |-> None, response |-> << >>]

\* an outbound call not made yet
IdleCall ==
    [pc |-> "idle", op |-> None, req |-> None, proto_req |-> None,
     remote |-> None, result |-> None]

IdleCodec ==
    [pc |-> "idle", obj |-> None, wire |-> None, decoded |-> None,
     reader |-> None, rewire |-> None]

GatewayAtRest == gw = [r \in Requests |-> IdleRequest] /\ gil = 0

Threads == 1..NumThreads

\* telemetry.rs 25: ENABLED is false; no thread has called anything
IdleThread == [pc |-> "idle", left |-> 0, seen |-> FALSE]

NoTelemetry ==
    [enabled |-> FALSE, subscriber |-> None, provider |-> None,
     performed |-> {}, skipped |-> 0, panicked |-> {}, emitted |-> {},
     th |-> [t \in Threads |-> IdleThread]]

TelemetryAtRest == telemetry = NoTelemetry

RpcAtRest == rpc = [c \in RpcCalls |-> IdleCall]

CodecAtRest == codec = IdleCodec

RegistryAtRest ==
    /\ func_trigger = [k \in {} |-> << >>]
    /\ data_trigger = [k \in {} |-> << >>]
    /\ calls = << >>
    /\ budget = 0

(***************************************************************************)
(* The registry and the record of the calls made on it.                    *)
(* calls holds the most recent consecutive calls that addressed one and    *)
(* the same list (same event kind, same source), at most HistLen of them:  *)
(* each with its arguments, the value it returned and the two maps as they *)
(* were before the call.                                                   *)
(***************************************************************************)
\* PyObjectEvent::new: inner is ObjectEvent::default(), both maps empty
EmptyMap == [k \in {} |-> << >>]

Init ==
    /\ func_trigger = EmptyMap
    /\ data_trigger = EmptyMap
    /\ calls = << >>
    /\ budget = MaxOps
    /\ GatewayAtRest /\ RpcAtRest /\ TelemetryAtRest /\ CodecAtRest

SameList(c, d) == c.ev = d.ev /\ c.src = d.src

Record(c) ==
    /\ budget' = budget - 1
    /\ calls' = IF calls # << >> /\ SameList(calls[Len(calls)], c)
                THEN (IF Len(calls) = HistLen THEN Tail(calls) ELSE calls) \o <<c>>
                ELSE <<c>>
    /\ UNCHANGED <<gw, gil, rpc, codec, telemetry>>

Call(o, e, s, t, out) ==
    [op |-> o, ev |-> e, src |-> s, target |-> t,
     ret |-> out.ret, panicked |-> out.panicked,
     pre_func |-> func_trigger, pre_data |-> data_trigger]

AddOnCompleteFnEvent ==
    /\ budget > 0
    /\ \E source_fn_id \in SourceFnIds, a \in TargetArgs :
          LET out == add_on_complete_fn_event(func_trigger, source_fn_id, a[1], a[2], a[3], a[4])
          IN  /\ func_trigger' = out.map
              /\ UNCHANGED data_trigger
              /\ Record(Call("add", "on_complete", source_fn_id, Trigger(a[1], a[2], a[3], a[4]), out))

DeleteOnCompleteFnEvent ==
    /\ budget > 0
    /\ \E source_fn_id \in SourceFnIds, a \in TargetArgs :
          LET out == delete_on_complete_fn_event(func_trigger, source_fn_id, a[1], a[2], a[3], a[4])
          IN  /\ func_trigger' = out.map
              /\ UNCHANGED data_trigger
              /\ Record(Call("delete", "on_complete", source_fn_id, Trigger(a[1], a[2], a[3], a[4]), out))

AddOnErrorFnEvent ==
    /\ budget > 0
    /\ \E source_fn_id \in SourceFnIds, a \in TargetArgs :
          LET out == add_on_error_fn_event(func_trigger, source_fn_id, a[1], a[2], a[3], a[4])
          IN  /\ func_trigger' = out.map
              /\ UNCHANGED data_trigger
              /\ Record(Call("add", "on_error", source_fn_id, Trigger(a[1], a[2], a[3], a[4]), out))

DeleteOnErrorFnEvent_resets_data ==
    /\ budget > 0
    /\ \E source_fn_id \in SourceFnIds, a \in TargetArgs :
          LET out == delete_on_error_fn_event(func_trigger, source_fn_id, a[1], a[2], a[3], a[4])
          IN  /\ func_trigger' = out.map
              /\ data_trigger' = [k \in {} |-> << >>]
              /\ Record(Call("delete", "on_error", source_fn_id, Trigger(a[1], a[2], a[3], a[4]), out))

DeleteOnErrorFnEvent ==
    /\ budget > 0
    /\ \E source_fn_id \in SourceFnIds, a \in TargetArgs :
          LET out == delete_on_error_fn_event(func_trigger, source_fn_id, a[1], a[2], a[3], a[4])
          IN  /\ func_trigger' = out.map
              /\ UNCHANGED data_trigger
              /\ Record(Call("delete", "on_error", source_fn_id, Trigger(a[1], a[2], a[3], a[4]), out))

AddOnCreateDataEvent ==
    /\ budget > 0
    /\ \E source_key \in SourceKeys, a \in TargetArgs :
          LET out == add_on_create_data_event(data_trigger, source_key, a[1], a[2], a[3], a[4])
          IN  /\ data_trigger' = out.map
              /\ UNCHANGED func_trigger
              /\ Record(Call("add", "on_create", source_key, Trigger(a[1], a[2], a[3], a[4]), out))

DeleteOnCreateDataEvent ==
    /\ budget > 0
    /\ \E source_key \in SourceKeys, a \in TargetArgs :
          LET out == delete_on_create_data_event(data_trigger, source_key, a[1], a[2], a[3], a[4])
          IN  /\ data_trigger' = out.map
              /\ UNCHANGED func_trigger
              /\ Record(Call("delete", "on_create", source_key, Trigger(a[1], a[2], a[3], a[4]), out))

AddOnUpdateDataEvent ==
    /\ budget > 0
    /\ \E source_key \in SourceKeys, a \in TargetArgs :
          LET out == add_on_update_data_event(data_trigger, source_key, a[1], a[2], a[3], a[4])
          IN  /\ data_trigger' = out.map
              /\ UNCHANGED func_trigger
              /\ Record(Call("add", "on_update", source_key, Trigger(a[1], a[2], a[3], a[4]), out))

DeleteOnUpdateDataEvent ==
    /\ budget > 0
    /\ \E source_key \in SourceKeys, a \in TargetArgs :
          LET out == delete_on_update_data_event(data_trigger, source_key, a[1], a[2], a[3], a[4])
          IN  /\ data_trigger' = out.map
              /\ UNCHANGED func_trigger
              /\ Record(Call("delete", "on_update", source_key, Trigger(a[1], a[2], a[3], a[4]), out))

AddOnDeleteDataEvent ==
    /\ budget > 0
    /\ \E source_key \in SourceKeys, a \in TargetArgs :
          LET out == add_on_delete_data_event(data_trigger, source_key, a[1], a[2], a[3], a[4])
          IN  /\ data_trigger' = out.map
              /\ UNCHANGED func_trigger
              /\ Record(Call("add", "on_delete", source_key, Trigger(a[1], a[2], a[3], a[4]), out))

DeleteOnDeleteDataEvent ==
    /\ budget > 0
    /\ \E source_key \in SourceKeys, a \in TargetArgs :
          LET out == delete_on_delete_data_event(data_trigger, source_key, a[1], a[2], a[3], a[4])
          IN  /\ data_trigger' = out.map
              /\ UNCHANGED func_trigger
              /\ Record(Call("delete", "on_delete", source_key, Trigger(a[1], a[2], a[3], a[4]), out))

Next ==
    \/ AddOnCompleteFnEvent
    \/ DeleteOnCompleteFnEvent
    \/ AddOnErrorFnEvent
    \/ DeleteOnErrorFnEvent
    \/ AddOnCreateDataEvent
    \/ DeleteOnCreateDataEvent
    \/ AddOnUpdateDataEvent
    \/ DeleteOnUpdateDataEvent
    \/ AddOnDeleteDataEvent
    \/ DeleteOnDeleteDataEvent

Spec == Init /\ [][Next]_vars

\* the same registry and the same calls, one call more
LongInit ==
    /\ func_trigger = EmptyMap
    /\ data_trigger = EmptyMap
    /\ calls = << >>
    /\ budget = MaxLongOps
    /\ GatewayAtRest /\ RpcAtRest /\ TelemetryAtRest /\ CodecAtRest

LongSpec == LongInit /\ [][Next]_vars

(***************************************************************************)
(* A registry wrapped from a decoded wire ObjectEvent                      *)
(* (impl From<oprc_pb::ObjectEvent> for PyObjectEvent).  The wire message  *)
(* is whatever the sender put into it: its lists may repeat a target and   *)
(* its targets may carry request options.                                  *)
(***************************************************************************)
\* a req_options map with one entry
SomeOptions == [k \in {"ttl"} |-> "1"]

WireTargets ==
    { Trigger("Order", 0, "notify", None),
      [Trigger("Order", 0, "notify", None) EXCEPT !.req_options = SomeOptions] }

WireLists == UNION { [1..n -> WireTargets] : n \in 0..MaxWireLen }

WireFuncTriggers ==
    {EmptyMap} \cup
    { [k \in {"f"} |-> [on_complete |-> c, on_error |-> e]] : c \in WireLists, e \in WireLists }

WireDataTriggers ==
    {EmptyMap} \cup
    { [k \in {5} |-> [on_create |-> c, on_update |-> u, on_delete |-> d]] :
        c \in WireLists, u \in WireLists, d \in WireLists }

\* number of targets an ObjectEvent holds
Size(ft, dt) ==
    (IF "f" \in DOMAIN ft THEN Len(ft["f"].on_complete) + Len(ft["f"].on_error) ELSE 0)
    + (IF 5 \in DOMAIN dt
       THEN Len(dt[5].on_create) + Len(dt[5].on_update) + Len(dt[5].on_delete)
       ELSE 0)

WireEvents ==
    { v \in [func_trigger : WireFuncTriggers, data_trigger : WireDataTriggers] :
        Size(v.func_trigger, v.data_trigger) <= MaxWireLen }

\* model.rs 384-389: Self { inner: value }
From(value) == [inner |-> value]

WireInit ==
    /\ \E value \in WireEvents :
          /\ func_trigger = From(value).inner.func_trigger
          /\ data_trigger = From(value).inner.data_trigger
    /\ calls = << >>
    /\ budget = MaxWireOps
    /\ GatewayAtRest /\ RpcAtRest /\ TelemetryAtRest /\ CodecAtRest

WireSpec == WireInit /\ [][Next]_vars

(***************************************************************************)
(* Reading the registry and the recorded calls                             *)
(***************************************************************************)
\* the list selected by an event kind and a source; empty when the source
\* has no entry
ListAt(ft, dt, ev, src) ==
    IF ev \in FnEvents
    THEN (IF src \in DOMAIN ft THEN ft[src][ev] ELSE << >>)
    ELSE (IF src \in DOMAIN dt THEN dt[src][ev] ELSE << >>)

\* whether the source has an entry in the map of its category
HasEntry(ft, dt, ev, src) ==
    IF ev \in FnEvents THEN src \in DOMAIN ft ELSE src \in DOMAIN dt

\* the two maps as they were after the i-th recorded call
PostFunc(i) == IF i < Len(calls) THEN calls[i + 1].pre_func ELSE func_trigger

PostData(i) == IF i < Len(calls) THEN calls[i + 1].pre_data ELSE data_trigger

\* the list the i-th recorded call selected, before and after that call
PreList(i) == ListAt(calls[i].pre_func, calls[i].pre_data, calls[i].ev, calls[i].src)

PostList(i) == ListAt(PostFunc(i), PostData(i), calls[i].ev, calls[i].src)

\* t is an element of l
Holds(l, t) == t \in {l[i] : i \in 1..Len(l)}

Count(l, t) == Cardinality({i \in 1..Len(l) : l[i] = t})

NoDuplicates(l) == \A i, j \in 1..Len(l) : l[i] = l[j] => i = j

\* every (event kind, source) pair the model addresses
AllLists ==
    { <<ev, src>> : ev \in FnEvents, src \in SourceFnIds } \cup
    { <<ev, src>> : ev \in DataEvents, src \in SourceKeys }

\* p addresses the list, resp. the entry, that call c selected
IsListOf(p, c) == p[1] = c.ev /\ p[2] = c.src

IsEntryOf(p, c) == ((p[1] \in FnEvents) = (c.ev \in FnEvents)) /\ p[2] = c.src

\* recorded calls i and i+1 were made with identical arguments
\* (calls only ever holds calls on one list, so the targets decide)
SameArgs(i, j) == calls[i].target = calls[j].target

(***************************************************************************)
(* C1: when the selected list does not hold the target, two add calls in a *)
(* row with the same arguments return true and then false, and the list    *)
(* then holds the target exactly once (it is the one-element list when the *)
(* list started empty or absent).                                          *)
(***************************************************************************)
IsAddTwice(i) ==
    /\ i + 1 <= Len(calls)
    /\ calls[i].op = "add" /\ calls[i + 1].op = "add"
    /\ SameArgs(i, i + 1)
    /\ ~Holds(PreList(i), calls[i].target)

C1_IdempotentAdd ==
    \A i \in 1..Len(calls) :
        IsAddTwice(i) =>
            /\ calls[i].ret = TRUE
            /\ calls[i + 1].ret = FALSE
            /\ Count(PostList(i + 1), calls[i].target) = 1
            /\ (PreList(i) = << >> => PostList(i + 1) = <<calls[i].target>>)

C1_Witness ==
    \E i \in 1..Len(calls) :
        /\ IsAddTwice(i)
        /\ PreList(i) = << >>
        /\ calls[i].ev = "on_create"
        /\ PostList(i + 1) = <<calls[i].target>>

(***************************************************************************)
(* C2: a delete whose selected list holds no equal target (or whose source *)
(* has no entry) returns false and leaves both maps as they were; a delete *)
(* whose list holds one returns true and the list is shorter by one.       *)
(***************************************************************************)
C2_SymmetricRemove ==
    \A i \in 1..Len(calls) :
        calls[i].op = "delete" =>
            IF Holds(PreList(i), calls[i].target)
            THEN /\ calls[i].ret = TRUE
                 /\ Len(PostList(i)) = Len(PreList(i)) - 1
            ELSE /\ calls[i].ret = FALSE
                 /\ PostFunc(i) = calls[i].pre_func
                 /\ PostData(i) = calls[i].pre_data

C2_Witness ==
    /\ Len(calls) >= 2
    /\ calls[Len(calls) - 1].op = "delete" /\ calls[Len(calls) - 1].ret = TRUE
    /\ Len(PreList(Len(calls) - 1)) = 1
    /\ calls[Len(calls)].op = "delete" /\ calls[Len(calls)].ret = FALSE
    /\ HasEntry(func_trigger, data_trigger, calls[Len(calls)].ev, calls[Len(calls)].src)

(***************************************************************************)
(* C3: in a registry built with PyObjectEvent::new and changed only by the *)
(* add and delete methods, no list holds two equal targets.                *)
(***************************************************************************)
C3_ListsAreSets ==
    \A p \in AllLists : NoDuplicates(ListAt(func_trigger, data_trigger, p[1], p[2]))

C3_Witness ==
    /\ calls # << >>
    /\ calls[Len(calls)].op = "add"
    /\ calls[Len(calls)].ret = FALSE
    /\ Len(PostList(Len(calls))) >= 2

(***************************************************************************)
(* C4: after a delete returns true the selected list holds no target equal *)
(* to the removed one, also in a registry wrapped from a wire ObjectEvent. *)
(***************************************************************************)
C4_DeleteRemovesEveryMatch ==
    \A i \in 1..Len(calls) :
        (calls[i].op = "delete" /\ calls[i].ret = TRUE) =>
            ~Holds(PostList(i), calls[i].target)

(***************************************************************************)
(* C5: an add returns true exactly when it appended: it creates the entry  *)
(* of an absent source and returns true, appends at the end of the list of *)
(* an existing entry without an equal target and returns true, and returns *)
(* false leaving both maps unchanged when an equal target is in the list.  *)
(***************************************************************************)
C5_AddReturnsTrueIffAppended ==
    \A i \in 1..Len(calls) :
        calls[i].op = "add" =>
            /\ calls[i].ret = (PostList(i) = Append(PreList(i), calls[i].target))
            /\ HasEntry(PostFunc(i), PostData(i), calls[i].ev, calls[i].src)
            /\ IF Holds(PreList(i), calls[i].target)
               THEN /\ calls[i].ret = FALSE
                    /\ PostFunc(i) = calls[i].pre_func
                    /\ PostData(i) = calls[i].pre_data
               ELSE /\ calls[i].ret = TRUE
                    /\ PostList(i) = Append(PreList(i), calls[i].target)

\* the three cases, met one after the other on the on_error list
C5_Witness ==
    /\ Len(calls) >= 3
    /\ \A i \in 1..3 : calls[i].op = "add" /\ calls[i].ev = "on_error"
    /\ ~HasEntry(calls[1].pre_func, calls[1].pre_data, calls[1].ev, calls[1].src)
    /\ calls[1].ret = TRUE
    /\ calls[2].target # calls[1].target /\ calls[2].ret = TRUE
    /\ calls[3].target = calls[1].target /\ calls[3].ret = FALSE

(***************************************************************************)
(* C6: adding three pairwise distinct targets to a list that started empty *)
(* leaves the list holding them in the order added; each add that returns  *)
(* true puts its target after every target the list held.                  *)
(***************************************************************************)
IsThreeAdds(i) ==
    /\ i + 2 <= Len(calls)
    /\ \A j \in i..(i + 2) : calls[j].op = "add"
    /\ PreList(i) = << >>
    /\ calls[i].target # calls[i + 1].target
    /\ calls[i].target # calls[i + 2].target
    /\ calls[i + 1].target # calls[i + 2].target

C6_InsertionOrder ==
    \A i \in 1..Len(calls) :
        /\ IsThreeAdds(i) =>
               PostList(i + 2) = <<calls[i].target, calls[i + 1].target, calls[i + 2].target>>
        /\ (calls[i].op = "add" /\ calls[i].ret = TRUE) =>
               /\ Len(PostList(i)) = Len(PreList(i)) + 1
               /\ SubSeq(PostList(i), 1, Len(PreList(i))) = PreList(i)
               /\ PostList(i)[Len(PostList(i))] = calls[i].target

C6_Witness == \E i \in 1..Len(calls) : IsThreeAdds(i) /\ Len(PostList(i + 2)) = 3

(***************************************************************************)
(* C7: an add or delete changes at most the list it selects: every other   *)
(* list of the same entry and every list of every other source is as it    *)
(* was, no other source gains or loses its entry, and the other lists of   *)
(* an entry the add created are empty.                                     *)
(***************************************************************************)
C7_OtherListsUnchanged ==
    \A i \in 1..Len(calls) :
        \A p \in AllLists :
            ~IsListOf(p, calls[i]) =>
                /\ ListAt(PostFunc(i), PostData(i), p[1], p[2])
                       = ListAt(calls[i].pre_func, calls[i].pre_data, p[1], p[2])
                /\ ~IsEntryOf(p, calls[i]) =>
                       HasEntry(PostFunc(i), PostData(i), p[1], p[2])
                           = HasEntry(calls[i].pre_func, calls[i].pre_data, p[1], p[2])

\* an add that created its entry while another source held targets,
\* and an add into an entry whose other list held a target
C7_Witness ==
    /\ Len(calls) >= 2
    /\ calls[1].op = "add" /\ calls[1].ev = "on_complete" /\ calls[1].ret = TRUE
    /\ ~HasEntry(calls[1].pre_func, calls[1].pre_data, calls[1].ev, calls[1].src)
    /\ \E p \in AllLists :
           /\ ~IsEntryOf(p, calls[1])
           /\ p[1] = "on_error"
           /\ ListAt(calls[1].pre_func, calls[1].pre_data, p[1], p[2]) # << >>
    /\ ListAt(func_trigger, data_trigger, "on_error", calls[1].src) = << >>
    /\ calls[2].op = "delete" /\ calls[2].ret = TRUE

(***************************************************************************)
(* C8: an entry is never taken out of its map: every call leaves each      *)
(* source that had an entry with an entry; an add that created the entry   *)
(* of its source followed by the delete of the same target leaves that     *)
(* entry in the map with all its lists empty, so the registry is not what  *)
(* it was before the add.                                                  *)
(***************************************************************************)
IsCreateThenDelete(i) ==
    /\ i + 1 <= Len(calls)
    /\ calls[i].op = "add" /\ calls[i + 1].op = "delete"
    /\ SameArgs(i, i + 1)
    /\ ~HasEntry(calls[i].pre_func, calls[i].pre_data, calls[i].ev, calls[i].src)

EntryIsEmpty(ft, dt, ev, src) ==
    /\ HasEntry(ft, dt, ev, src)
    /\ \A e \in (IF ev \in FnEvents THEN FnEvents ELSE DataEvents) :
           ListAt(ft, dt, e, src) = << >>

C8_EntriesAreKept ==
    /\ [][/\ DOMAIN func_trigger \subseteq DOMAIN func_trigger'
          /\ DOMAIN data_trigger \subseteq DOMAIN data_trigger']_vars
    /\ [](\A i \in 1..Len(calls) :
            IsCreateThenDelete(i) =>
                /\ calls[i + 1].ret = TRUE
                /\ EntryIsEmpty(PostFunc(i + 1), PostData(i + 1), calls[i].ev, calls[i].src)
                /\ <<PostFunc(i + 1), PostData(i + 1)>>
                       # <<calls[i].pre_func, calls[i].pre_data>>)

C8_Witness ==
    \E i \in 1..Len(calls) :
        /\ IsCreateThenDelete(i)
        /\ calls[i].ev = "on_create"
        /\ i + 2 <= Len(calls)
        /\ EntryIsEmpty(func_trigger, data_trigger, calls[i].ev, calls[i].src)

(***************************************************************************)
(* C9: for each data event kind, field key and target absent from the      *)
(* selected list, the calls add, add, delete, delete with identical        *)
(* arguments return true, false, true, false.                              *)
(***************************************************************************)
IsAddAddDeleteDelete(i) ==
    /\ i + 3 <= Len(calls)
    /\ calls[i].ev \in DataEvents
    /\ calls[i].op = "add" /\ calls[i + 1].op = "add"
    /\ calls[i + 2].op = "delete" /\ calls[i + 3].op = "delete"
    /\ \A j \in (i + 1)..(i + 3) : SameArgs(i, j)
    /\ ~Holds(PreList(i), calls[i].target)

C9_AddAddDeleteDelete ==
    \A i \in 1..Len(calls) :
        IsAddAddDeleteDelete(i) =>
            <<calls[i].ret, calls[i + 1].ret, calls[i + 2].ret, calls[i + 3].ret>>
                = <<TRUE, FALSE, TRUE, FALSE>>

\* addOnCreateDataEvent(5, ("Order", 0, "notify", None)) and its repeats
C9_Witness ==
    /\ Len(calls) = 4
    /\ IsAddAddDeleteDelete(1)
    /\ calls[1].ev = "on_create"
    /\ calls[1].src = 5
    /\ calls[1].target = Trigger("Order", 0, "notify", None)

(***************************************************************************)
(* C10: every add and delete call returns a boolean; none unwinds.         *)
(***************************************************************************)
C10_CallsAreTotal ==
    \A i \in 1..Len(calls) :
        /\ calls[i].panicked = FALSE
        /\ calls[i].ret \in BOOLEAN

\* a target with object_id None and one with object_id Some added to one
\* list, the latter then removed from the end of that list
C10_Witness ==
    /\ Len(calls) = 3
    /\ calls[1].op = "add" /\ calls[1].target.object_id = None
    /\ calls[2].op = "add" /\ calls[2].target.object_id = Some(1)
    /\ calls[3].op = "delete" /\ calls[3].ret = TRUE
    /\ calls[3].target = calls[2].target

(***************************************************************************)
(* The invocation gateway (handler.rs).                                    *)
(*                                                                         *)
(* The tonic handler InvocationHandler::invoke_fn / invoke_obj hands the   *)
(* inbound request to the free function invoke_fn / invoke_obj, which      *)
(*   takes the interpreter lock, converts the request, calls the callback  *)
(*   and turns what it returns into a future, then lets the lock go;       *)
(*   awaits that future;                                                   *)
(*   takes the lock again to extract an InvocationResponse from the value  *)
(*   the future resolved to;                                               *)
(* and the handler answers with the response, or with one it builds from   *)
(* the error.  Text is modelled as its UTF-8 bytes.                        *)
(***************************************************************************)
\* InvocationResponseCode / oprc_pb::ResponseStatus
Okay == 0

InvalidRequest == 1

AppError == 2

SystemError == 3

\* a status value outside the enum: the status field is an i32
UnknownStatus == 7

\* PyResult / Result
Ok(v) == [ok |-> TRUE, val |-> v]

Err(e) == [ok |-> FALSE, val |-> e]

\* decoded requests as the transport hands them to the handler
InboundFnRequests ==
    { [partition_id |-> 0, cls_id |-> "calc", fn_id |-> "add",
       options |-> EmptyOptions, payload |-> <<1, 2>>],
      [partition_id |-> 1, cls_id |-> "Order", fn_id |-> "notify",
       options |-> SomeOptions, payload |-> << >>] }

InboundObjRequests ==
    { [partition_id |-> 0, cls_id |-> "calc", fn_id |-> "add", object_id |-> 7,
       options |-> EmptyOptions, payload |-> <<1, 2>>],
      [partition_id |-> 1, cls_id |-> "Order", fn_id |-> "notify", object_id |-> 8,
       options |-> SomeOptions, payload |-> << >>] }

\* model.rs 71-82
InvocationRequestFrom(value) ==
    [partition_id |-> value.partition_id,
     cls_id |-> value.cls_id,
     fn_id |-> value.fn_id,
     options |-> value.options,
     payload |-> value.payload]

\* model.rs 208-220
ObjectInvocationRequestFrom(value) ==
    [partition_id |-> value.partition_id,
     cls_id |-> value.cls_id,
     fn_id |-> value.fn_id,
     object_id |-> value.object_id,
     options |-> value.options,
     payload |-> value.payload]

ProtoFromResponseRef_no_headers(value) ==
    [payload |-> Some(value.payload),
     status |-> value.status,
     headers |-> EmptyOptions]

\* model.rs 130-139: the wire response of a model response
ProtoFromResponseRef(value) ==
    [payload |-> Some(value.payload),
     status |-> value.status,
     headers |-> value.header]

\* InvocationResponse objects the engine may hand back (status is any i32)
EngineResponses ==
    { [payload |-> <<3>>, status |-> Okay, header |-> EmptyOptions],
      [payload |-> << >>, status |-> AppError, header |-> SomeOptions],
      [payload |-> << >>, status |-> SystemError, header |-> EmptyOptions],
      [payload |-> <<9>>, status |-> UnknownStatus, header |-> EmptyOptions] }

\* exceptions of the engine: the type's name and str(value), as bytes
PyErrs ==
    { [type_name |-> <<69, 114, 114>>, message |-> << >>],
      [type_name |-> <<69, 114, 114>>, message |-> <<120>>] }

\* the error of a failed extract::<PyRef<InvocationResponse>>
ExtractError == [type_name |-> <<84, 121, 112, 101>>, message |-> <<99, 97, 115, 116>>]

\* what the callback's future can resolve to: an InvocationResponse object,
\* an object of another type, or an exception
AwaitOutcomes ==
    { Ok([shape |-> "InvocationResponse", resp |-> Some(r)]) : r \in EngineResponses }
    \cup { Ok([shape |-> "other", resp |-> None]) }
    \cup { Err(e) : e \in PyErrs }

\* what the call of the callback under the lock can end in (handler.rs 34-44):
\* a future, or the error of PyTuple::new, call_method1 or
\* into_future_with_locals
SubmitOutcomes == { Ok("future") } \cup { Err(e) : e \in PyErrs }

EntryOf_always_fn(kind) == "invoke_fn"

\* handler.rs 40 / 65: the entry point named in call_method1
EntryOf(kind) == IF kind = "fn" THEN "invoke_fn" ELSE "invoke_obj"

\* handler.rs 35 / 60: the request object built for the callback
EngineRequestOf(kind, req) ==
    IF kind = "fn" THEN InvocationRequestFrom(req) ELSE ObjectInvocationRequestFrom(req)

\* handler.rs 47-48 / 72-73: extract the response object and convert it
Extract(any) ==
    IF any.shape = "InvocationResponse"
    THEN Ok(ProtoFromResponseRef(any.resp[1]))
    ELSE Err(ExtractError)

to_string_type_only(err) == err.type_name

\* Display of PyErr: the type's name, ": " and str(value)
to_string(err) == err.type_name \o <<58, 32>> \o err.message

\* String::into_bytes: the string's own byte vector
IntoBytes(text) == text

\* handler.rs 97-102 / 128-133: the response built from an error
Synthesize(err) ==
    [payload |-> Some(IntoBytes(to_string(err))),
     status |-> AppError,
     headers |-> EmptyOptions]

HandlerResult_propagate(out) ==
    IF out.ok THEN Ok(out.val) ELSE Err(out.val)

\* handler.rs 94-105 / 125-136: the handler's match on the result; Ok is
\* a transport success carrying the response, Err would be a tonic::Status
HandlerResult(out) ==
    IF out.ok THEN Ok(out.val) ELSE Ok(Synthesize(out.val))

Awaited_any(r) ==
    LET done == {q \in Requests : gw[q].result # None}
    IN  gw[CHOOSE q \in done : \A p \in done : q <= p].result[1]

\* handler.rs 45 / 70: what the await of request r resolves to
Awaited(r) == gw[r].result[1]

\* handler.rs 81-93 / 108-123: a request arrives at the handler
Receive(r) ==
    /\ gw[r].pc = "idle"
    /\ \E k \in {"fn", "obj"} :
         \E q \in (IF k = "fn" THEN InboundFnRequests ELSE InboundObjRequests) :
            gw' = [gw EXCEPT ![r] = [@ EXCEPT !.pc = "received",
                                              !.kind = Some(k),
                                              !.req = Some(q)]]
    /\ UNCHANGED <<gil, func_trigger, data_trigger, calls, budget, rpc, codec, telemetry>>

\* handler.rs 34 / 59: Python::with_gil, entered when the lock is free
EnterSubmit(r) ==
    /\ gw[r].pc = "received"
    /\ gil = 0
    /\ gil' = r
    /\ gw' = [gw EXCEPT ![r].pc = "submitting"]
    /\ UNCHANGED <<func_trigger, data_trigger, calls, budget, rpc, codec, telemetry>>

Submit_keeps_lock(r) ==
    /\ gw[r].pc = "submitting"
    /\ gil = r
    /\ \E o \in SubmitOutcomes :
         /\ gw' = [gw EXCEPT ![r] =
                      [@ EXCEPT !.entry = Some(EntryOf(gw[r].kind[1])),
                                !.engine_req = Some(EngineRequestOf(gw[r].kind[1], gw[r].req[1])),
                                !.call = Some(o),
                                !.pc = IF o.ok THEN "awaiting" ELSE "finished",
                                !.out = IF o.ok THEN None ELSE Some(Err(o.val))]]
         /\ gil' = IF o.ok THEN r ELSE 0
    /\ UNCHANGED <<func_trigger, data_trigger, calls, budget, rpc, codec, telemetry>>

\* handler.rs 35-44 / 60-69: convert, call the callback, wrap the future;
\* the closure ends and the lock is let go.  `res?` returns an error at once.
Submit(r) ==
    /\ gw[r].pc = "submitting"
    /\ gil = r
    /\ \E o \in SubmitOutcomes :
         gw' = [gw EXCEPT ![r] =
                   [@ EXCEPT !.entry = Some(EntryOf(gw[r].kind[1])),
                             !.engine_req = Some(EngineRequestOf(gw[r].kind[1], gw[r].req[1])),
                             !.call = Some(o),
                             !.pc = IF o.ok THEN "awaiting" ELSE "finished",
                             !.out = IF o.ok THEN None ELSE Some(Err(o.val))]]
    /\ gil' = 0
    /\ UNCHANGED <<func_trigger, data_trigger, calls, budget, rpc, codec, telemetry>>

\* the engine: the coroutine of request r ends, with a value or an exception
\* (the event loop holds the lock while it runs the coroutine)
EngineComplete(r) ==
    /\ gw[r].pc = "awaiting"
    /\ gw[r].result = None
    /\ gil = 0
    /\ \E o \in AwaitOutcomes : gw' = [gw EXCEPT ![r].result = Some(o)]
    /\ UNCHANGED <<gil, func_trigger, data_trigger, calls, budget, rpc, codec, telemetry>>

ResumeFault_hang(r) ==
    /\ gw[r].pc = "awaiting"
    /\ gw[r].result # None
    /\ ~Awaited(r).ok
    /\ UNCHANGED vars

\* handler.rs 45, 50 / 70, 75: the await resolved to an error, `?` returns it
ResumeFault(r) ==
    /\ gw[r].pc = "awaiting"
    /\ gw[r].result # None
    /\ ~Awaited(r).ok
    /\ gw' = [gw EXCEPT ![r] = [@ EXCEPT !.pc = "finished",
                                         !.out = Some(Err(Awaited(r).val))]]
    /\ UNCHANGED <<gil, func_trigger, data_trigger, calls, budget, rpc, codec, telemetry>>

\* handler.rs 45-46 / 70-71: the await resolved to a value, with_gil again
EnterExtract(r) ==
    /\ gw[r].pc = "awaiting"
    /\ gw[r].result # None
    /\ Awaited(r).ok
    /\ gil = 0
    /\ gil' = r
    /\ gw' = [gw EXCEPT ![r].pc = "extracting"]
    /\ UNCHANGED <<func_trigger, data_trigger, calls, budget, rpc, codec, telemetry>>

\* handler.rs 47-51 / 72-76: extract under the lock, let the lock go, return
ExtractResult(r) ==
    /\ gw[r].pc = "extracting"
    /\ gil = r
    /\ gw' = [gw EXCEPT ![r] = [@ EXCEPT !.pc = "finished",
                                         !.out = Some(Extract(Awaited(r).val))]]
    /\ gil' = 0
    /\ UNCHANGED <<func_trigger, data_trigger, calls, budget, rpc, codec, telemetry>>

\* handler.rs 94-105 / 125-136: the handler hands its result to the transport
Respond(r) ==
    /\ gw[r].pc = "finished"
    /\ gw' = [gw EXCEPT ![r] = [@ EXCEPT !.pc = "responded",
                                         !.response = Append(@, HandlerResult(gw[r].out[1]))]]
    /\ UNCHANGED <<gil, func_trigger, data_trigger, calls, budget, rpc, codec, telemetry>>

GatewayInit ==
    /\ gw = [r \in Requests |-> IdleRequest]
    /\ gil = 0
    /\ RegistryAtRest /\ RpcAtRest /\ TelemetryAtRest /\ CodecAtRest

GatewayNext ==
    \/ \E r \in Requests : Receive(r)
    \/ \E r \in Requests : EnterSubmit(r)
    \/ \E r \in Requests : Submit(r)
    \/ \E r \in Requests : EngineComplete(r)
    \/ \E r \in Requests : ResumeFault(r)
    \/ \E r \in Requests : EnterExtract(r)
    \/ \E r \in Requests : ExtractResult(r)
    \/ \E r \in Requests : Respond(r)

GatewaySpec == GatewayInit /\ [][GatewayNext]_vars

\* the runtime keeps polling a task that can make a step
GatewayFairness ==
    \A r \in Requests :
        /\ WF_vars(EnterSubmit(r))
        /\ WF_vars(Submit(r))
        /\ WF_vars(ResumeFault(r))
        /\ WF_vars(EnterExtract(r))
        /\ WF_vars(ExtractResult(r))
        /\ WF_vars(Respond(r))

\* the engine ends every coroutine it was given
EngineFairness == \A r \in Requests : WF_vars(EngineComplete(r))

\* the gateway is scheduled fairly; the engine may never end a call
GatewayFairSpec == GatewaySpec /\ GatewayFairness

\* the gateway and the engine are both scheduled fairly
GatewayLiveSpec == GatewaySpec /\ GatewayFairness /\ EngineFairness

(***************************************************************************)
(* Observers of the gateway, written against the request records alone.    *)
(***************************************************************************)
Responded(r) == gw[r].pc = "responded"

\* the call into the callback failed under the lock
SubmitFaulted(r) == gw[r].call # None /\ ~gw[r].call[1].ok

\* the awaited result is an exception
AwaitFaulted(r) == gw[r].result # None /\ ~gw[r].result[1].ok

\* the awaited result is a value that is no InvocationResponse
ShapeFaulted(r) ==
    /\ gw[r].result # None
    /\ gw[r].result[1].ok
    /\ gw[r].result[1].val.shape # "InvocationResponse"

\* the awaited result is an InvocationResponse
WellFormed(r) ==
    /\ gw[r].result # None
    /\ gw[r].result[1].ok
    /\ gw[r].result[1].val.shape = "InvocationResponse"

Faulted(r) == SubmitFaulted(r) \/ AwaitFaulted(r) \/ ShapeFaulted(r)

\* the response object the engine produced for r
EngineResponse(r) == gw[r].result[1].val.resp[1]

\* C11: a responded request whose engine call failed at one of the three
\* fault points got exactly a transport success carrying status AppError and
\* a payload that is present and not empty
C11_FaultsBecomeAppError ==
    \A r \in Requests :
        (Responded(r) /\ Faulted(r)) =>
            /\ Len(gw[r].response) = 1
            /\ gw[r].response[1].ok
            /\ gw[r].response[1].val.status = 2
            /\ gw[r].response[1].val.payload # None
            /\ Len(gw[r].response[1].val.payload[1]) > 0

\* a function request answered after a synchronous fault and an object
\* request answered after a result of the wrong shape
C11_Witness ==
    /\ Responded(1) /\ gw[1].kind = Some("fn") /\ SubmitFaulted(1)
    /\ Responded(2) /\ gw[2].kind = Some("obj") /\ ShapeFaulted(2)

\* a request answered after the awaited result was an exception
C11_AwaitWitness ==
    \E r \in Requests : Responded(r) /\ AwaitFaulted(r)

\* C12: a responded request whose engine produced an InvocationResponse got
\* a transport success carrying that payload, status and headers
C12_WellFormedUnchanged ==
    \A r \in Requests :
        (Responded(r) /\ WellFormed(r)) =>
            /\ gw[r].response[1].ok
            /\ gw[r].response[1].val.payload = Some(EngineResponse(r).payload)
            /\ gw[r].response[1].val.status = EngineResponse(r).status
            /\ gw[r].response[1].val.headers = EngineResponse(r).header

\* the scenario {calc, add, [1,2]} -> {[3], Okay} as a function request, and
\* an object request whose engine response carries headers
C12_Witness ==
    /\ Responded(1) /\ gw[1].kind = Some("fn") /\ WellFormed(1)
    /\ gw[1].req[1].cls_id = "calc" /\ gw[1].req[1].payload = <<1, 2>>
    /\ EngineResponse(1).payload = <<3>> /\ EngineResponse(1).status = 0
    /\ Responded(2) /\ gw[2].kind = Some("obj") /\ WellFormed(2)
    /\ EngineResponse(2).header = SomeOptions

\* the engine's result for r, value or fault, has been received
ResultReceived(r) == SubmitFaulted(r) \/ gw[r].result # None

\* the text of an exception as the gateway renders it
TextOf(e) == e.type_name \o <<58, 32>> \o e.message

\* the fault of r's own engine call
OwnFault(r) ==
    IF SubmitFaulted(r) THEN gw[r].call[1].val
    ELSE IF AwaitFaulted(r) THEN gw[r].result[1].val
    ELSE ExtractError

\* the response of r is the one its own engine result determines
DerivedFromOwnResult(r) ==
    LET resp == gw[r].response[1].val
    IN  IF WellFormed(r)
        THEN resp = [payload |-> Some(EngineResponse(r).payload),
                     status |-> EngineResponse(r).status,
                     headers |-> EngineResponse(r).header]
        ELSE resp.payload = Some(TextOf(OwnFault(r)))

\* C13: in every reachable state a request has at most one response, a
\* response exists only when the engine's result for that request has been
\* received, and it is the response that request's own result determines
C13_OneResponseFromOwnResult ==
    \A r \in Requests :
        /\ Len(gw[r].response) <= 1
        /\ Len(gw[r].response) = 1 =>
              /\ ResultReceived(r)
              /\ gw[r].response[1].ok
              /\ DerivedFromOwnResult(r)

\* two requests in flight with different engine results: the second is
\* answered from its own while the first's has arrived and is not yet used
C13_Witness ==
    /\ gw[1].pc = "awaiting" /\ WellFormed(1) /\ EngineResponse(1).status = 0
    /\ Responded(2) /\ AwaitFaulted(2)

\* C14: under fair scheduling of the gateway and of the engine, every
\* request the gateway received is eventually answered, with one response
C14_EveryRequestAnswered ==
    \A r \in Requests :
        (gw[r].pc = "received") ~> (Responded(r) /\ Len(gw[r].response) = 1)

\* both requests answered, one after a normal completion and one after a fault
C14_Witness ==
    /\ Responded(1) /\ WellFormed(1) /\ Len(gw[1].response) = 1
    /\ Responded(2) /\ Faulted(2) /\ Len(gw[2].response) = 1

\* C15: the interpreter lock is held by a request only while it submits or
\* extracts, and under fair scheduling of the gateway alone (the engine may
\* never end another call) a request whose engine result has been received
\* is eventually answered
C15_NoBlockingAcrossAwait ==
    /\ [](\A r \in Requests : gil = r => gw[r].pc \in {"submitting", "extracting"})
    /\ \A r \in Requests : ResultReceived(r) ~> Responded(r)

\* one request is suspended on a result that has not arrived while the
\* other, submitted after it, has had its result extracted and is answered
C15_Witness ==
    /\ gw[1].pc = "awaiting" /\ gw[1].result = None /\ gil = 0
    /\ Responded(2) /\ WellFormed(2)

\* C16: the status of every response the gateway hands to the transport is
\* one of Okay=0, InvalidRequest=1, AppError=2, SystemError=3
C16_StatusIsClosedEnum ==
    \A r \in Requests :
        Responded(r) => gw[r].response[1].val.status \in {0, 1, 2, 3}

\* C17: the response answering a faulted request has no headers and the
\* bytes of the fault's text as payload, and a response with status
\* InvalidRequest or SystemError is one the engine produced with that status
C17_SynthesizedShape ==
    \A r \in Requests :
        Responded(r) =>
            /\ Faulted(r) =>
                  /\ gw[r].response[1].val.headers = EmptyOptions
                  /\ gw[r].response[1].val.payload = Some(TextOf(OwnFault(r)))
            /\ gw[r].response[1].val.status \in {1, 3} =>
                  /\ WellFormed(r)
                  /\ EngineResponse(r).status = gw[r].response[1].val.status

\* a request answered after an exception that carries a message, next to
\* one answered with the engine's own SystemError
C17_Witness ==
    \E r, q \in Requests :
        /\ Responded(r) /\ AwaitFaulted(r) /\ gw[r].result[1].val.message = <<120>>
        /\ Responded(q) /\ WellFormed(q) /\ EngineResponse(q).status = 3

\* C20: the entry point called for a request is invoke_fn for a function
\* invocation and invoke_obj for an object invocation, and the request
\* object passed to it has the inbound request's partition_id, cls_id,
\* fn_id, options and payload, and object_id for an object invocation
C20_RoutedIntact ==
    \A r \in Requests :
        gw[r].entry # None =>
            LET inbound == gw[r].req[1]
                passed == gw[r].engine_req[1]
            IN  /\ gw[r].kind = Some("fn") => gw[r].entry = Some("invoke_fn")
                /\ gw[r].kind = Some("obj") => gw[r].entry = Some("invoke_obj")
                /\ passed.partition_id = inbound.partition_id
                /\ passed.cls_id = inbound.cls_id
                /\ passed.fn_id = inbound.fn_id
                /\ passed.options = inbound.options
                /\ passed.payload = inbound.payload
                /\ gw[r].kind = Some("obj") => passed.object_id = inbound.object_id

\* a function request and an object request, both passed to the engine
C20_Witness ==
    /\ gw[1].kind = Some("fn") /\ gw[1].entry = Some("invoke_fn")
    /\ gw[1].engine_req[1].payload = <<1, 2>>
    /\ gw[2].kind = Some("obj") /\ gw[2].entry = Some("invoke_obj")
    /\ gw[2].engine_req[1].object_id = 8 /\ gw[2].engine_req[1].options = SomeOptions

(***************************************************************************)
(* The outbound proxy (rpc.rs): RpcManager::invoke_fn, invoke_fn_async,    *)
(* invoke_obj and invoke_obj_async.  A call builds the wire request from   *)
(* the request object under the interpreter lock, waits for ObjectProxy    *)
(* without the lock and maps what ObjectProxy returned.  In this part the  *)
(* holder of the lock is a call of the proxy.                              *)
(***************************************************************************)
RpcOps == {"invoke_fn", "invoke_fn_async", "invoke_obj", "invoke_obj_async"}

IsSync(op) == op \in {"invoke_fn", "invoke_obj"}

IsObj(op) == op \in {"invoke_obj", "invoke_obj_async"}

\* request objects the caller passes
OutboundFnRequests == { InvocationRequestFrom(q) : q \in InboundFnRequests }

OutboundObjRequests == { ObjectInvocationRequestFrom(q) : q \in InboundObjRequests }

\* model.rs 47-55
InvocationRequestIntoProto(self) ==
    [partition_id |-> self.partition_id,
     cls_id |-> self.cls_id,
     fn_id |-> self.fn_id,
     options |-> self.options,
     payload |-> self.payload]

\* model.rs 224-233
ObjectInvocationRequestIntoProto(self) ==
    [partition_id |-> self.partition_id,
     cls_id |-> self.cls_id,
     fn_id |-> self.fn_id,
     object_id |-> self.object_id,
     options |-> self.options,
     payload |-> self.payload]

\* wire responses of the remote side: payload is optional, status any i32
RemoteResponses ==
    { [payload |-> Some(<<3>>), status |-> Okay, headers |-> EmptyOptions],
      [payload |-> None, status |-> AppError, headers |-> SomeOptions],
      [payload |-> Some(<<4>>), status |-> SystemError, headers |-> EmptyOptions],
      [payload |-> Some(<<9>>), status |-> UnknownStatus, headers |-> EmptyOptions] }

\* the text of the errors ObjectProxy returns
ProxyErrors == { <<116>>, <<100, 99>> }

\* what ObjectProxy::invoke_*_with_req returns
RemoteOutcomes == { Ok(w) : w \in RemoteResponses } \cup { Err(e) : e \in ProxyErrors }

\* model.rs 108-117
InvocationResponseFrom(value) ==
    [payload |-> IF value.payload = None THEN << >> ELSE value.payload[1],
     status |-> value.status,
     header |-> value.headers]

\* PyRuntimeError::new_err(text)
RuntimeError(text) == [type_name |-> <<82, 117, 110>>, message |-> text]

RpcResult_as_response(remote) ==
    IF remote.ok
    THEN Ok(InvocationResponseFrom(remote.val))
    ELSE Ok([payload |-> remote.val, status |-> SystemError, header |-> EmptyOptions])

\* rpc.rs 57-58, 80-82, 119-120, 145-147: map_err then map
RpcResult(remote) ==
    IF remote.ok
    THEN Ok(InvocationResponseFrom(remote.val))
    ELSE Err(RuntimeError(remote.val))

\* the caller invokes one of the four operations with a request object
RpcCall(c) ==
    /\ rpc[c].pc = "idle"
    /\ \E op \in RpcOps :
         \E q \in (IF IsObj(op) THEN OutboundObjRequests ELSE OutboundFnRequests) :
            rpc' = [rpc EXCEPT ![c] = [@ EXCEPT !.pc = "called",
                                                !.op = Some(op),
                                                !.req = Some(q)]]
    /\ UNCHANGED <<gil, func_trigger, data_trigger, calls, budget, gw, codec, telemetry>>

\* rpc.rs 37, 95: the method runs with the lock; 71, 136: Python::attach
RpcAttach(c) ==
    /\ rpc[c].pc = "called"
    /\ gil = 0
    /\ gil' = c
    /\ rpc' = [rpc EXCEPT ![c].pc = "attached"]
    /\ UNCHANGED <<func_trigger, data_trigger, calls, budget, gw, codec, telemetry>>

\* rpc.rs 40-46, 71-75, 102-108, 136-140: borrow the request and build the
\* wire request; then py.detach (46, 108) or the end of the attach closure
RpcIntoProto(c) ==
    /\ rpc[c].pc = "attached"
    /\ gil = c
    /\ rpc' = [rpc EXCEPT ![c] =
                  [@ EXCEPT !.pc = "waiting",
                            !.proto_req = Some(IF IsObj(rpc[c].op[1])
                                               THEN ObjectInvocationRequestIntoProto(rpc[c].req[1])
                                               ELSE InvocationRequestIntoProto(rpc[c].req[1]))]]
    /\ gil' = 0
    /\ UNCHANGED <<func_trigger, data_trigger, calls, budget, gw, codec, telemetry>>

\* rpc.rs 47-55, 77-79, 109-117, 142-144: ObjectProxy returns
RpcRemote(c) ==
    /\ rpc[c].pc = "waiting"
    /\ \E o \in RemoteOutcomes :
         rpc' = [rpc EXCEPT ![c] = [@ EXCEPT !.pc = "replied", !.remote = Some(o)]]
    /\ UNCHANGED <<gil, func_trigger, data_trigger, calls, budget, gw, codec, telemetry>>

\* rpc.rs 46-56, 108-118: py.detach ends, the thread takes the lock again
RpcReattach(c) ==
    /\ rpc[c].pc = "replied"
    /\ IsSync(rpc[c].op[1])
    /\ gil = 0
    /\ gil' = c
    /\ rpc' = [rpc EXCEPT ![c].pc = "reattached"]
    /\ UNCHANGED <<func_trigger, data_trigger, calls, budget, gw, codec, telemetry>>

\* rpc.rs 57-58, 119-120: the blocking operations return to the interpreter
RpcReturnSync(c) ==
    /\ rpc[c].pc = "reattached"
    /\ gil = c
    /\ rpc' = [rpc EXCEPT ![c] = [@ EXCEPT !.pc = "returned",
                                           !.result = Some(RpcResult(rpc[c].remote[1]))]]
    /\ gil' = 0
    /\ UNCHANGED <<func_trigger, data_trigger, calls, budget, gw, codec, telemetry>>

RpcReturnAsync_raw_error(c) ==
    /\ rpc[c].pc = "replied"
    /\ ~IsSync(rpc[c].op[1])
    /\ rpc' = [rpc EXCEPT ![c] =
                  [@ EXCEPT !.pc = "returned",
                            !.result = Some(IF rpc[c].remote[1].ok
                                            THEN RpcResult(rpc[c].remote[1])
                                            ELSE Err([type_name |-> << >>,
                                                      message |-> rpc[c].remote[1].val]))]]
    /\ UNCHANGED <<gil, func_trigger, data_trigger, calls, budget, gw, codec, telemetry>>

\* rpc.rs 80-82, 145-147: the futures of the async operations resolve
RpcReturnAsync(c) ==
    /\ rpc[c].pc = "replied"
    /\ ~IsSync(rpc[c].op[1])
    /\ rpc' = [rpc EXCEPT ![c] = [@ EXCEPT !.pc = "returned",
                                           !.result = Some(RpcResult(rpc[c].remote[1]))]]
    /\ UNCHANGED <<gil, func_trigger, data_trigger, calls, budget, gw, codec, telemetry>>

RpcInit == RegistryAtRest /\ GatewayAtRest /\ CodecAtRest /\ RpcAtRest /\ TelemetryAtRest

RpcNext ==
    \/ \E c \in RpcCalls : RpcCall(c)
    \/ \E c \in RpcCalls : RpcAttach(c)
    \/ \E c \in RpcCalls : RpcIntoProto(c)
    \/ \E c \in RpcCalls : RpcRemote(c)
    \/ \E c \in RpcCalls : RpcReattach(c)
    \/ \E c \in RpcCalls : RpcReturnSync(c)
    \/ \E c \in RpcCalls : RpcReturnAsync(c)

RpcSpec == RpcInit /\ [][RpcNext]_vars

Returned(c) == rpc[c].pc = "returned"

\* C18: a returned call of any of the four operations is an error exactly
\* when ObjectProxy returned an error, and otherwise a response carrying the
\* remote response's status
C18_ProxyKeepsFaultsApart ==
    \A c \in RpcCalls :
        Returned(c) =>
            /\ rpc[c].result[1].ok <=> rpc[c].remote[1].ok
            /\ rpc[c].remote[1].ok =>
                  rpc[c].result[1].val.status = rpc[c].remote[1].val.status

\* a blocking call that returned the remote side's SystemError response and
\* an async call that returned the proxy's error
C18_Witness ==
    /\ Returned(1) /\ rpc[1].op = Some("invoke_fn")
    /\ rpc[1].remote[1].ok /\ rpc[1].remote[1].val.status = 3 /\ rpc[1].result[1].ok
    /\ Returned(2) /\ rpc[2].op = Some("invoke_obj_async")
    /\ ~rpc[2].remote[1].ok /\ ~rpc[2].result[1].ok

(***************************************************************************)
(* The conversions of ObjectData to and from its wire form (model.rs).     *)
(* A run builds an ObjectData, converts it with into_proto and converts    *)
(* the wire value back with From<ObjData>.                                 *)
(***************************************************************************)
\* #[derive(Default)] of ObjectMetadata
DefaultMeta == [object_id |-> 0, cls_id |-> "", partition_id |-> 0]

Metas == { DefaultMeta, [object_id |-> 7, cls_id |-> "Order", partition_id |-> 1] }

EntryValues == { << >>, <<1>>, <<1, 2>> }

EntryMaps == UNION { [ks -> EntryValues] : ks \in SUBSET SourceKeys }

\* events holding at most one target
CodecEvents == { v \in WireEvents : Size(v.func_trigger, v.data_trigger) <= 1 }

\* model.rs 355-361 (event absent) and 309-325 (event present)
ObjectDatas ==
    [meta : Metas, entries : EntryMaps, event : {None} \cup { Some(From(v)) : v \in CodecEvents }]

\* ValType::Byte
ValTypeByte == "Byte"

\* model.rs 249-258
MetaInto(self) ==
    [object_id |-> self.object_id, cls_id |-> self.cls_id, partition_id |-> self.partition_id]

\* model.rs 260-269
MetaFrom(value) ==
    [object_id |-> value.object_id, cls_id |-> value.cls_id, partition_id |-> value.partition_id]

\* model.rs 393-395
EventIntoProto(self) == self.inner

\* model.rs 329-347
ObjectDataIntoProto(self) ==
    [metadata |-> Some(MetaInto(self.meta)),
     entries |-> [k \in DOMAIN self.entries |->
                     [data |-> self.entries[k], type |-> ValTypeByte]],
     event |-> IF self.event = None THEN None ELSE Some(EventIntoProto(self.event[1]))]

ObjectDataFrom_skips_empty(value) ==
    [meta |-> IF value.metadata = None THEN DefaultMeta ELSE MetaFrom(value.metadata[1]),
     entries |-> [k \in {x \in DOMAIN value.entries : value.entries[x].data # << >>} |->
                     value.entries[k].data],
     event |-> IF value.event = None THEN None ELSE Some(From(value.event[1]))]

ObjectDataFrom_no_event(value) ==
    [meta |-> IF value.metadata = None THEN DefaultMeta ELSE MetaFrom(value.metadata[1]),
     entries |-> [k \in DOMAIN value.entries |-> value.entries[k].data],
     event |-> None]

\* model.rs 311-324
ObjectDataFrom(value) ==
    [meta |-> IF value.metadata = None THEN DefaultMeta ELSE MetaFrom(value.metadata[1]),
     entries |-> [k \in DOMAIN value.entries |-> value.entries[k].data],
     event |-> IF value.event = None THEN None ELSE Some(From(value.event[1]))]

\* model.rs 329: into_proto of the value built
CodecIntoProto ==
    /\ codec.pc = "built"
    /\ codec' = [codec EXCEPT !.pc = "encoded",
                              !.wire = Some(ObjectDataIntoProto(codec.obj[1]))]
    /\ UNCHANGED <<func_trigger, data_trigger, calls, budget, gw, gil, rpc, telemetry>>

\* model.rs 311: ObjectData::from of the wire value
CodecFrom ==
    /\ codec.pc = "encoded"
    /\ codec' = [codec EXCEPT !.pc = "decoded",
                              !.decoded = Some(ObjectDataFrom(codec.wire[1]))]
    /\ UNCHANGED <<func_trigger, data_trigger, calls, budget, gw, gil, rpc, telemetry>>

CodecInit ==
    /\ \E o \in ObjectDatas : codec = [IdleCodec EXCEPT !.pc = "built", !.obj = Some(o)]
    /\ RegistryAtRest /\ GatewayAtRest /\ RpcAtRest /\ TelemetryAtRest

CodecNext == CodecIntoProto \/ CodecFrom

CodecSpec == CodecInit /\ [][CodecNext]_vars

\* C19: the value decoded from the wire form of an ObjectData has the
\* original's meta, entries and event
C19_ObjectDataRoundTrip ==
    codec.pc = "decoded" =>
        /\ codec.decoded[1].meta = codec.obj[1].meta
        /\ codec.decoded[1].entries = codec.obj[1].entries
        /\ codec.decoded[1].event = codec.obj[1].event

\* a round trip of a value with its own meta, two entries and an event
\* that holds a target
C19_Witness ==
    /\ codec.pc = "decoded"
    /\ codec.obj[1].meta # DefaultMeta
    /\ DOMAIN codec.obj[1].entries = SourceKeys
    /\ codec.obj[1].event # None
    /\ Size(codec.obj[1].event[1].inner.func_trigger, codec.obj[1].event[1].inner.data_trigger) = 1
    /\ codec.wire[1].event = Some(codec.obj[1].event[1].inner)

(***************************************************************************)
(* Blocking and non-blocking proxy operations.                             *)
(***************************************************************************)
\* one operation is the blocking variant of the other
Counterparts(a, b) ==
    \/ a = "invoke_fn" /\ b = "invoke_fn_async"
    \/ a = "invoke_obj" /\ b = "invoke_obj_async"

\* C21: a blocking call and a call of its async counterpart, made with the
\* same request and given the same outcome by the remote side, sent the same
\* wire request and returned the same response or the same error; and a
\* call that waits for the remote side, or has its reply and is not yet
\* back in the interpreter, does not hold the interpreter lock
C21_BlockingEqualsAsync ==
    /\ \A c, d \in RpcCalls :
          ( /\ Returned(c) /\ Returned(d)
            /\ Counterparts(rpc[c].op[1], rpc[d].op[1])
            /\ rpc[c].req = rpc[d].req
            /\ rpc[c].remote = rpc[d].remote )
          => /\ rpc[c].proto_req = rpc[d].proto_req
             /\ rpc[c].result = rpc[d].result
    /\ \A c \in RpcCalls : rpc[c].pc \in {"waiting", "replied"} => gil # c

\* invoke_obj and invoke_obj_async returned the same error for the same
\* request and the same failure of the remote side
C21_Witness ==
    /\ Returned(1) /\ Returned(2)
    /\ rpc[1].op = Some("invoke_obj") /\ rpc[2].op = Some("invoke_obj_async")
    /\ rpc[1].req = rpc[2].req
    /\ rpc[1].remote = rpc[2].remote /\ ~rpc[1].remote[1].ok
    /\ rpc[1].result = rpc[2].result

\* a blocking call waits for the remote side while another call runs under
\* the interpreter lock
C21_DetachedWitness ==
    /\ rpc[1].pc = "waiting" /\ IsSync(rpc[1].op[1])
    /\ rpc[2].pc = "attached" /\ gil = 2

(***************************************************************************)
(* Targets with request options, in a registry wrapped from a wire event.  *)
(***************************************************************************)
\* the targets of l that carry request options, in order
WithOptions(l) ==
    LET keep(t) == t.req_options # EmptyOptions
    IN  SelectSeq(l, keep)

\* the target the arguments of the i-th recorded call name, without options
Built(i) ==
    [cls_id |-> calls[i].target.cls_id,
     partition_id |-> calls[i].target.partition_id,
     fn_id |-> calls[i].target.fn_id,
     object_id |-> calls[i].target.object_id,
     req_options |-> EmptyOptions]

\* l holds a target with the four fields of t and with request options
HoldsWithOptions(l, t) ==
    \E j \in 1..Len(l) :
        /\ l[j].cls_id = t.cls_id /\ l[j].partition_id = t.partition_id
        /\ l[j].fn_id = t.fn_id /\ l[j].object_id = t.object_id
        /\ l[j].req_options # EmptyOptions

\* C22: in a registry wrapped from a wire ObjectEvent, every call leaves the
\* targets carrying request options where they were; an add that returns
\* true appended the target of its four arguments with empty req_options;
\* and when the selected list holds no target equal to that one in all five
\* fields, a delete returns false and changes nothing while an add returns
\* true and appends, also when the list holds a target with the same four
\* fields and non-empty req_options
C22_EqualityOverFiveFields ==
    \A i \in 1..Len(calls) :
        /\ WithOptions(PostList(i)) = WithOptions(PreList(i))
        /\ (calls[i].op = "add" /\ calls[i].ret) => PostList(i) = Append(PreList(i), Built(i))
        /\ ~Holds(PreList(i), Built(i)) =>
              IF calls[i].op = "delete"
              THEN calls[i].ret = FALSE /\ PostList(i) = PreList(i)
              ELSE calls[i].ret = TRUE /\ PostList(i) = Append(PreList(i), Built(i))

\* on a wrapped list holding only a target with request options, a delete
\* with its four fields returned false and the add that followed returned
\* true and appended
C22_Witness ==
    /\ Len(calls) = 2
    /\ Len(PreList(1)) = 1 /\ HoldsWithOptions(PreList(1), calls[1].target)
    /\ calls[1].op = "delete" /\ calls[1].ret = FALSE
    /\ calls[2].op = "add" /\ calls[2].ret = TRUE
    /\ SameArgs(1, 2)
    /\ Len(PostList(2)) = 2 /\ PostList(2)[1].req_options = SomeOptions

\* C22 as stated: a delete whose selected list holds a target with its four
\* fields and non-empty req_options returns false
C22_DeleteBesideOptionsReturnsFalse ==
    \A i \in 1..Len(calls) :
        (calls[i].op = "delete" /\ HoldsWithOptions(PreList(i), calls[i].target)) =>
            calls[i].ret = FALSE

(***************************************************************************)
(* Order of the targets a delete leaves.                                   *)
(***************************************************************************)
\* index of the first element of l equal to t (l holds t)
FirstIndex(l, t) ==
    CHOOSE k \in 1..Len(l) : l[k] = t /\ \A j \in 1..(k - 1) : l[j] # t

\* l with its k-th element taken out, the others in their order
TakeOut(l, k) == [j \in 1..(Len(l) - 1) |-> IF j < k THEN l[j] ELSE l[j + 1]]

\* C23: after a delete that returned true the selected list is the list
\* before it with exactly the first element equal to the target taken out,
\* the others in their order; and an add of a target the list did not hold
\* followed by a delete with the same arguments leaves the list as it was
\* before the add
C23_DeleteKeepsOrder ==
    \A i \in 1..Len(calls) :
        /\ (calls[i].op = "delete" /\ calls[i].ret) =>
              /\ Holds(PreList(i), calls[i].target)
              /\ PostList(i) = TakeOut(PreList(i), FirstIndex(PreList(i), calls[i].target))
        /\ ( /\ i + 1 <= Len(calls)
             /\ calls[i].op = "add" /\ calls[i + 1].op = "delete"
             /\ SameArgs(i, i + 1)
             /\ ~Holds(PreList(i), calls[i].target) )
           => PostList(i + 1) = PreList(i)

\* the first of three targets was deleted and the other two kept their order
C23_Witness ==
    /\ Len(calls) = 2
    /\ calls[2].op = "delete" /\ calls[2].ret
    /\ Len(PreList(2)) = 3
    /\ PreList(2)[1] = calls[2].target
    /\ PostList(2) = <<PreList(2)[2], PreList(2)[3]>>
    /\ PreList(2)[2] # PreList(2)[3]

\* a target was added to a list of two and deleted again
C23_RestoreWitness ==
    /\ Len(calls) = 2
    /\ calls[1].op = "add" /\ calls[1].ret /\ Len(PreList(1)) = 2
    /\ calls[2].op = "delete" /\ calls[2].ret /\ SameArgs(1, 2)
    /\ PostList(2) = PreList(1)

(***************************************************************************)
(* The two maps of the registry.                                           *)
(***************************************************************************)
\* C24: every recorded add or delete of an on_complete or on_error function
\* event left the whole data_trigger map as it was, and every add or delete
\* of an on_create, on_update or on_delete data event left the whole
\* func_trigger map as it was
C24_MapsAreIndependent ==
    \A i \in 1..Len(calls) :
        IF calls[i].ev \in FnEvents
        THEN PostData(i) = calls[i].pre_data
        ELSE PostFunc(i) = calls[i].pre_func

\* a delete and an add of a function event changed func_trigger while
\* data_trigger holds a target
C24_Witness ==
    /\ Len(calls) = 2
    /\ calls[1].ev \in FnEvents /\ calls[1].op = "delete" /\ calls[1].ret
    /\ calls[2].op = "add" /\ calls[2].ret
    /\ calls[1].pre_func # PostFunc(1) /\ calls[2].pre_func # func_trigger
    /\ 5 \in DOMAIN data_trigger /\ Len(data_trigger[5].on_update) = 1

\* an add of a data event changed data_trigger while func_trigger holds a
\* target
C24_DataWitness ==
    /\ calls # << >>
    /\ calls[Len(calls)].ev \in DataEvents /\ calls[Len(calls)].ret
    /\ calls[Len(calls)].pre_data # data_trigger
    /\ "f" \in DOMAIN func_trigger /\ Len(func_trigger["f"].on_error) = 1

(***************************************************************************)
(* Ownership of the event of an ObjectData (model.rs 296-367).             *)
(*                                                                         *)
(* An ObjectData is built by its constructor or decoded from a wire value. *)
(* A reader takes its event, from the value itself or from a copy() of it, *)
(* and calls the add and delete methods on what it was given; the          *)
(* ObjectData is then encoded.  func_trigger and data_trigger are the maps *)
(* of the event in the reader's hands.                                     *)
(***************************************************************************)
\* model.rs 355-361
ObjectDataNew(meta, entries) == [meta |-> meta, entries |-> entries, event |-> None]

\* model.rs 364-366: #[derive(Clone)], field by field
ObjectDataCopy(self) == [meta |-> self.meta, entries |-> self.entries, event |-> self.event]

EventGetter_borrowed(self) == [value |-> self.event, owned |-> FALSE]

\* model.rs 305-306: #[pyo3(get)] on a field of type Option<PyObjectEvent>
\* hands out a clone of the field in an object of its own
EventGetter(self) == [value |-> self.event, owned |-> TRUE]

\* an event whose one target is in on_complete of "f" or in on_update of 5
OneTarget(v) ==
    \/ /\ v.data_trigger = EmptyMap
       /\ "f" \in DOMAIN v.func_trigger /\ Len(v.func_trigger["f"].on_complete) = 1
    \/ /\ v.func_trigger = EmptyMap
       /\ 5 \in DOMAIN v.data_trigger /\ Len(v.data_trigger[5].on_update) = 1

\* wire values carrying such an event
OwnedWires ==
    { ObjectDataIntoProto(o) :
        o \in { x \in ObjectDatas :
                  /\ x.meta # DefaultMeta
                  /\ x.entries = [k \in {5} |-> <<1>>]
                  /\ x.event # None
                  /\ Size(x.event[1].inner.func_trigger, x.event[1].inner.data_trigger) = 1
                  /\ OneTarget(x.event[1].inner) } }

\* the ObjectData at hand: the constructed or the decoded one
TheObject == IF codec.decoded # None THEN codec.decoded[1] ELSE codec.obj[1]

\* the ObjectData as it is now: its event is the one in the reader's hands
\* when the reader was not given an object of its own
Stored ==
    IF codec.reader # None /\ ~codec.reader[1].owned
    THEN [TheObject EXCEPT !.event =
              Some([inner |-> [func_trigger |-> func_trigger, data_trigger |-> data_trigger]])]
    ELSE TheObject

\* model.rs 355: ObjectData(meta, entries)
CodecNew ==
    /\ codec.pc = "idle"
    /\ \E m \in Metas, e \in EntryMaps :
          codec' = [codec EXCEPT !.pc = "constructed", !.obj = Some(ObjectDataNew(m, e))]
    /\ UNCHANGED <<func_trigger, data_trigger, calls, budget, gw, gil, rpc, telemetry>>

\* model.rs 305-306, 364-366: the reader takes the event of the ObjectData,
\* or of a copy() of it, and starts calling the methods on it
GetEvent ==
    /\ codec.pc = "decoded"
    /\ codec.reader = None
    /\ \E via \in {"self", "copy"} :
          LET got == EventGetter(IF via = "copy" THEN ObjectDataCopy(TheObject) ELSE TheObject)
          IN  /\ got.value # None
              /\ func_trigger' = got.value[1].inner.func_trigger
              /\ data_trigger' = got.value[1].inner.data_trigger
              /\ codec' = [codec EXCEPT !.pc = "read",
                                        !.reader = Some([via |-> via, owned |-> got.owned])]
    /\ calls' = << >>
    /\ budget' = MaxWireOps
    /\ UNCHANGED <<gw, gil, rpc, telemetry>>

\* model.rs 329: into_proto of the ObjectData as it is now
CodecReencode ==
    /\ codec.pc \in {"constructed", "decoded", "read"}
    /\ codec' = [codec EXCEPT !.pc = "reencoded",
                              !.rewire = Some(ObjectDataIntoProto(Stored))]
    /\ UNCHANGED <<func_trigger, data_trigger, calls, budget, gw, gil, rpc, telemetry>>

OwnedInit ==
    /\ \/ codec = IdleCodec
       \/ \E w \in OwnedWires : codec = [IdleCodec EXCEPT !.pc = "encoded", !.wire = Some(w)]
    /\ RegistryAtRest /\ GatewayAtRest /\ RpcAtRest /\ TelemetryAtRest

OwnedNext == CodecNew \/ CodecFrom \/ GetEvent \/ Next \/ CodecReencode

OwnedSpec == OwnedInit /\ [][OwnedNext]_vars

\* the event the wire form of x carries
EncodedEvent(x) == IF x.event = None THEN None ELSE Some(x.event[1].inner)

\* C25: an ObjectData built with its constructor has no event; and while a
\* reader holds the event it took from an ObjectData, or from a copy of it,
\* and after every add and delete it called on that event, the event of the
\* ObjectData is the one it was built with and into_proto encodes that one
C25_ReaderOwnsItsEvent ==
    /\ (codec.obj # None /\ codec.decoded = None) => Stored.event = None
    /\ codec.reader # None => Stored.event = TheObject.event
    /\ (codec.pc = "reencoded" /\ codec.reader # None) =>
          codec.rewire[1].event = EncodedEvent(TheObject)

\* the reader deleted the target of the event it took and added another,
\* and the ObjectData encodes the event it was decoded with
C25_Witness ==
    /\ codec.pc = "reencoded" /\ codec.reader # None /\ codec.reader[1].via = "self"
    /\ Len(calls) = 2
    /\ calls[1].op = "delete" /\ calls[1].ret /\ calls[2].op = "add" /\ calls[2].ret
    /\ Size(func_trigger, data_trigger) = 1
    /\ [func_trigger |-> func_trigger, data_trigger |-> data_trigger] # TheObject.event[1].inner
    /\ codec.rewire[1].event = codec.wire[1].event

\* the same through a copy() of the ObjectData
C25_CopyWitness ==
    /\ codec.pc = "reencoded" /\ codec.reader # None /\ codec.reader[1].via = "copy"
    /\ calls # << >> /\ calls[1].ret
    /\ codec.rewire[1].event = codec.wire[1].event

\* an ObjectData from the constructor, encoded without an event
C25_NewWitness ==
    /\ codec.pc = "reencoded" /\ codec.obj # None
    /\ codec.rewire[1].event = None /\ DOMAIN codec.obj[1].entries = SourceKeys

(***************************************************************************)
(* The conversions of InvocationResponse to and from its wire form         *)
(* (model.rs 108-139).  A run starts from a wire response and converts it, *)
(* or from a model response, converts it to the wire by value or by        *)
(* reference and converts the result back.                                 *)
(***************************************************************************)
StatusValues == {Okay, InvalidRequest, AppError, SystemError, UnknownStatus}

\* oprc_pb::InvocationResponse: payload is optional
WireResponses ==
    [payload : {None, Some(<< >>), Some(<<3>>), Some(<<1, 2>>)},
     status : StatusValues,
     headers : {EmptyOptions, SomeOptions}]

\* model::InvocationResponse
ModelResponses ==
    [payload : {<< >>, <<3>>, <<1, 2>>},
     status : StatusValues,
     header : {EmptyOptions, SomeOptions}]

ProtoFromResponse_absent_when_empty(value) ==
    [payload |-> IF value.payload = << >> THEN None ELSE Some(value.payload),
     status |-> value.status,
     headers |-> value.header]

\* model.rs 119-128: the wire response of a model response, by value
ProtoFromResponse(value) ==
    [payload |-> Some(value.payload),
     status |-> value.status,
     headers |-> value.header]

\* model.rs 121 / 132: InvocationResponse into the wire form
ResponseInto ==
    /\ codec.pc = "model_response"
    /\ \/ codec' = [codec EXCEPT !.pc = "into_value",
                                 !.wire = Some(ProtoFromResponse(codec.obj[1]))]
       \/ codec' = [codec EXCEPT !.pc = "into_ref",
                                 !.wire = Some(ProtoFromResponseRef(codec.obj[1]))]
    /\ UNCHANGED <<func_trigger, data_trigger, calls, budget, gw, gil, rpc, telemetry>>

\* model.rs 110: InvocationResponse::from of a wire response
ResponseFrom ==
    /\ codec.pc \in {"wire_response", "into_value", "into_ref"}
    /\ codec' = [codec EXCEPT !.pc = "converted",
                              !.decoded = Some(InvocationResponseFrom(codec.wire[1]))]
    /\ UNCHANGED <<func_trigger, data_trigger, calls, budget, gw, gil, rpc, telemetry>>

ResponseInit ==
    /\ \/ \E w \in WireResponses :
             codec = [IdleCodec EXCEPT !.pc = "wire_response", !.wire = Some(w)]
       \/ \E m \in ModelResponses :
             codec = [IdleCodec EXCEPT !.pc = "model_response", !.obj = Some(m)]
    /\ RegistryAtRest /\ GatewayAtRest /\ RpcAtRest /\ TelemetryAtRest

ResponseNext == ResponseInto \/ ResponseFrom

ResponseSpec == ResponseInit /\ [][ResponseNext]_vars

\* C26: a converted wire response has the wire payload, empty when it was
\* absent, and the wire status and headers; the wire form of a model
\* response has a present payload and the model's status and header; and
\* the model response converted back from that wire form is the original
C26_ResponseConversion ==
    /\ (codec.pc = "converted" /\ codec.obj = None) =>
          /\ codec.decoded[1].payload =
                (IF codec.wire[1].payload = None THEN << >> ELSE codec.wire[1].payload[1])
          /\ codec.decoded[1].status = codec.wire[1].status
          /\ codec.decoded[1].header = codec.wire[1].headers
    /\ (codec.obj # None /\ codec.wire # None) =>
          /\ codec.wire[1].payload # None
          /\ codec.wire[1].payload[1] = codec.obj[1].payload
          /\ codec.wire[1].status = codec.obj[1].status
          /\ codec.wire[1].headers = codec.obj[1].header
    /\ (codec.pc = "converted" /\ codec.obj # None) =>
          /\ codec.decoded[1].payload = codec.obj[1].payload
          /\ codec.decoded[1].status = codec.obj[1].status
          /\ codec.decoded[1].header = codec.obj[1].header

\* a model response with an empty payload, headers and a status outside the
\* enum went to the wire by value and came back
C26_Witness ==
    /\ codec.pc = "converted" /\ codec.obj # None
    /\ codec.obj[1].payload = << >> /\ codec.obj[1].status = 7
    /\ codec.obj[1].header = SomeOptions
    /\ codec.wire[1] = ProtoFromResponse(codec.obj[1])
    /\ codec.wire[1].payload = Some(<< >>)
    /\ codec.decoded[1] = codec.obj[1]

\* a wire response without a payload was converted
C26_AbsentWitness ==
    /\ codec.pc = "converted" /\ codec.obj = None
    /\ codec.wire[1].payload = None /\ codec.decoded[1].payload = << >>

(***************************************************************************)
(* Decoding a wire ObjData and encoding the result again (model.rs         *)
(* 309-347).                                                               *)
(***************************************************************************)
\* value-type tags of the wire: the tag is an i32, Byte or any other value
ValTypes == {ValTypeByte, "Other"}

WireValDatas == [data : {<< >>, <<1>>}, type : ValTypes]

WireObjDatas ==
    [metadata : {None, Some([object_id |-> 7, cls_id |-> "Order", partition_id |-> 1])},
     entries : UNION { [ks -> WireValDatas] : ks \in SUBSET SourceKeys },
     event : {None} \cup { Some(v) : v \in { x \in CodecEvents : OneTarget(x) } }]

DecodeInit ==
    /\ \E w \in WireObjDatas : codec = [IdleCodec EXCEPT !.pc = "encoded", !.wire = Some(w)]
    /\ RegistryAtRest /\ GatewayAtRest /\ RpcAtRest /\ TelemetryAtRest

DecodeNext == CodecFrom \/ CodecReencode

DecodeSpec == DecodeInit /\ [][DecodeNext]_vars

\* C27: the ObjectData decoded from a wire ObjData has the default metadata
\* (object_id 0, empty cls_id, partition_id 0) when the metadata is absent
\* and the wire metadata otherwise, no event when the event is absent, and
\* under each key of the wire entries the bytes of that entry; encoding it
\* again gives each entry its bytes under its key with the tag Byte
C27_DecodeIsTotal ==
    /\ (codec.pc \in {"decoded", "reencoded"} /\ codec.obj = None) =>
          /\ codec.decoded # None
          /\ codec.decoded[1].meta =
                (IF codec.wire[1].metadata = None
                 THEN [object_id |-> 0, cls_id |-> "", partition_id |-> 0]
                 ELSE codec.wire[1].metadata[1])
          /\ codec.wire[1].event = None => codec.decoded[1].event = None
          /\ DOMAIN codec.decoded[1].entries = DOMAIN codec.wire[1].entries
          /\ \A k \in DOMAIN codec.wire[1].entries :
                codec.decoded[1].entries[k] = codec.wire[1].entries[k].data
    /\ (codec.pc = "reencoded" /\ codec.obj = None /\ codec.reader = None) =>
          /\ DOMAIN codec.rewire[1].entries = DOMAIN codec.wire[1].entries
          /\ \A k \in DOMAIN codec.wire[1].entries :
                /\ codec.rewire[1].entries[k].data = codec.wire[1].entries[k].data
                /\ codec.rewire[1].entries[k].type = "Byte"

\* a wire value without metadata and event, with an empty entry and an
\* entry tagged otherwise than Byte, was decoded and encoded again
C27_Witness ==
    /\ codec.pc = "reencoded" /\ codec.obj = None
    /\ codec.wire[1].metadata = None /\ codec.wire[1].event = None
    /\ DOMAIN codec.wire[1].entries = SourceKeys
    /\ codec.wire[1].entries[5] = [data |-> << >>, type |-> "Byte"]
    /\ codec.wire[1].entries[6] = [data |-> <<1>>, type |-> "Other"]
    /\ codec.decoded[1].meta.cls_id = ""
    /\ codec.rewire[1].entries[6] = [data |-> <<1>>, type |-> "Byte"]

(***************************************************************************)
(* Telemetry (telemetry.rs, built with the telemetry feature).             *)
(*                                                                         *)
(* Threads call init_telemetry and forward_log in any order.  A call of    *)
(* init_telemetry is the swap of ENABLED, then the construction of the     *)
(* provider and the layers, then set_global_default, then                  *)
(* set_tracer_provider; other threads run between these steps.  A call is  *)
(* named by its thread and the number of calls the thread has left.        *)
(***************************************************************************)
CallId(t) == <<t, telemetry.th[t].left>>

\* telemetry.rs 98-103: the macro chosen for a level
Severity(level) ==
    CASE level = 10 -> "trace"
      [] level = 20 -> "debug"
      [] level = 30 -> "info"
      [] level = 40 -> "warn"
      [] OTHER -> "error"

LogLevels == {10, 30, 50}

\* telemetry.rs 94: a Relaxed load returns the current value, or the
\* initial one as long as the thread has observed no store
Loads(t) == {telemetry.enabled} \cup (IF telemetry.th[t].seen THEN {} ELSE {FALSE})

\* init_telemetry has been entered by some call
InitCalled == telemetry.performed # {} \/ telemetry.skipped > 0

\* the thread's call returns
Returns(th, t) == [th EXCEPT ![t] = [@ EXCEPT !.pc = "idle", !.left = @ - 1]]

InitSwap_load_only(t) ==
    /\ telemetry.th[t].pc = "idle" /\ telemetry.th[t].left > 0
    /\ LET old == telemetry.enabled
           th1 == [telemetry.th EXCEPT ![t].seen = TRUE]
       IN  telemetry' =
              IF old
              THEN [telemetry EXCEPT !.skipped = @ + 1,
                                     !.th = Returns(th1, t)]
              ELSE [telemetry EXCEPT !.performed = @ \cup {CallId(t)},
                                     !.th = [th1 EXCEPT ![t].pc = "setup"]]
    /\ UNCHANGED <<func_trigger, data_trigger, calls, budget, gw, gil, rpc, codec>>

\* telemetry.rs 48-49: init_telemetry is entered; ENABLED.swap(true, SeqCst)
\* and the return when it was already true
InitSwap(t) ==
    /\ telemetry.th[t].pc = "idle" /\ telemetry.th[t].left > 0
    /\ LET old == telemetry.enabled
           th1 == [telemetry.th EXCEPT ![t].seen = TRUE]
       IN  telemetry' =
              IF old
              THEN [telemetry EXCEPT !.skipped = @ + 1,
                                     !.th = Returns(th1, t)]
              ELSE [telemetry EXCEPT !.enabled = TRUE,
                                     !.performed = @ \cup {CallId(t)},
                                     !.th = [th1 EXCEPT ![t].pc = "setup"]]
    /\ UNCHANGED <<func_trigger, data_trigger, calls, budget, gw, gil, rpc, codec>>

\* telemetry.rs 51-83: resource, tracer provider, layers and subscriber are
\* built; expect("otlp span exporter") panics when the exporter cannot be
\* built
InitBuild(t) ==
    /\ telemetry.th[t].pc = "setup"
    /\ \/ telemetry' = [telemetry EXCEPT !.th[t].pc = "built"]
       \/ telemetry' = [telemetry EXCEPT !.panicked = @ \cup {CallId(t)},
                                         !.th = Returns(telemetry.th, t)]
    /\ UNCHANGED <<func_trigger, data_trigger, calls, budget, gw, gil, rpc, codec>>

\* telemetry.rs 84-86: set_global_default, ignored when one is already set
InitSetSubscriber(t) ==
    /\ telemetry.th[t].pc = "built"
    /\ telemetry' = [telemetry EXCEPT
                        !.subscriber = IF @ = None THEN Some(CallId(t)) ELSE @,
                        !.th[t].pc = "subscribed"]
    /\ UNCHANGED <<func_trigger, data_trigger, calls, budget, gw, gil, rpc, codec>>

\* telemetry.rs 88-89: set_tracer_provider, and the call returns
InitSetProvider(t) ==
    /\ telemetry.th[t].pc = "subscribed"
    /\ telemetry' = [telemetry EXCEPT !.provider = Some(CallId(t)),
                                      !.th = Returns(telemetry.th, t)]
    /\ UNCHANGED <<func_trigger, data_trigger, calls, budget, gw, gil, rpc, codec>>

\* telemetry.rs 92-105: forward_log returns when it loads false and emits
\* one tracing event otherwise
ForwardLog(t) ==
    /\ telemetry.th[t].pc = "idle" /\ telemetry.th[t].left > 0
    /\ \E level \in LogLevels, read \in Loads(t) :
          telemetry' =
             IF ~read
             THEN [telemetry EXCEPT !.th = Returns(telemetry.th, t)]
             ELSE [telemetry EXCEPT
                      !.emitted = @ \cup {[severity |-> Severity(level),
                                           after_init |-> InitCalled]},
                      !.th = Returns([telemetry.th EXCEPT ![t].seen = TRUE], t)]
    /\ UNCHANGED <<func_trigger, data_trigger, calls, budget, gw, gil, rpc, codec>>

\* the process starts: ENABLED is false; a global subscriber may already
\* have been set by other code of the process (call <<0, 0>>)
TelemetryInit ==
    /\ \E s \in {None, Some(<<0, 0>>)} :
          telemetry = [NoTelemetry EXCEPT
                          !.subscriber = s,
                          !.th = [t \in Threads |-> [IdleThread EXCEPT !.left = MaxThreadCalls]]]
    /\ RegistryAtRest /\ GatewayAtRest /\ RpcAtRest /\ CodecAtRest

TelemetryNext ==
    \/ \E t \in Threads : InitSwap(t)
    \/ \E t \in Threads : InitBuild(t)
    \/ \E t \in Threads : InitSetSubscriber(t)
    \/ \E t \in Threads : InitSetProvider(t)
    \/ \E t \in Threads : ForwardLog(t)

TelemetrySpec == TelemetryInit /\ [][TelemetryNext]_vars

\* C28: as soon as init_telemetry has been called, exactly one of its calls
\* is the one that went past the guard, and never more than one; every
\* thread inside the setup is running that call and only that call sets the
\* subscriber and the tracer provider; and every event forward_log emitted
\* was emitted after a call of init_telemetry
C28_InitAtMostOnce ==
    /\ Cardinality(telemetry.performed) <= 1
    /\ telemetry.skipped > 0 => Cardinality(telemetry.performed) = 1
    /\ telemetry.provider # None => telemetry.provider[1] \in telemetry.performed
    /\ telemetry.subscriber \notin {None, Some(<<0, 0>>)} =>
          telemetry.subscriber[1] \in telemetry.performed
    /\ \A t \in Threads :
          telemetry.th[t].pc # "idle" => CallId(t) \in telemetry.performed
    /\ \A e \in telemetry.emitted : e.after_init
    /\ (telemetry.performed = {} /\ telemetry.skipped = 0) => telemetry.emitted = {}

\* two threads called init_telemetry: one call ran the whole setup, the
\* other returned at once, and a log was forwarded afterwards
C28_Witness ==
    /\ telemetry.skipped = 1
    /\ \E c \in telemetry.performed :
          /\ telemetry.th[c[1]].left = MaxThreadCalls - 1
          /\ telemetry.provider = Some(c) /\ telemetry.subscriber = Some(c)
    /\ \E e \in telemetry.emitted : e.severity = "info"

\* forward_log was called before any init_telemetry and emitted nothing
C28_SilentWitness ==
    /\ telemetry.performed = {} /\ telemetry.skipped = 0 /\ telemetry.emitted = {}
    /\ \E t \in Threads : telemetry.th[t].left < MaxThreadCalls

====
